---- MODULE Spec2Model ----
(***************************************************************************)
(* A model of the sparsemat crate: the linked row index, the storage       *)
(* engines (linked incremental, compressed-row, row-of-arrays,             *)
(* block-partitioned) and the default algorithms of the SparseMatrix       *)
(* trait that are written once against the engines' primitives.            *)
(*                                                                         *)
(* Vectors of the program (Vec<T>) are sequences; the program indexes from *)
(* 0, so At(s, k) reads position k.  A matrix is a record tagged with its  *)
(* engine (eng) and carrying a panic field: "none" while the value is      *)
(* usable, otherwise the panic an operation raised on it (the fields then  *)
(* hold what the operation had already written).  An operator that reads   *)
(* an intermediate result several times takes it as a parameter of a       *)
(* helper operator (named ..._at, ..._with, ..._in) and not as a LET.      *)
(***************************************************************************)
EXTENDS Integers, Sequences, FiniteSets, TLC

\* ---------------------------------------------------------------- bounds
MaxRow == 1        \* rows written are 0..MaxRow
MaxCol == 1        \* columns written are 0..MaxCol
MaxVal == 2        \* values written are 1..MaxVal
MaxOps == 2        \* number of cell writes in one run
MaxDim == 5        \* eye(n) is built for n in 1..MaxDim
ParBlocks == 2     \* with_sub_matrices(ParBlocks, ParMaxRows) builds the
ParMaxRows == 2    \* block-partitioned matrix the writes go to
MaxPush == 4       \* pushes made on a linked row index in one run
FillRows == 16     \* rows over which a nearly full index spreads its entries

\* ------------------------------------------------------- program constants
IndexBits == 8     \* width of the index type I (u8)
ParDefaultBlocks == 4

Rows == 0..MaxRow
Cols == 0..MaxCol
Vals == 1..MaxVal
Keys == Rows \X Cols

\* ------------------------------------------------------------- index type
Pow2(n) == 2 ^ n
IndexMAX == Pow2(IndexBits) - 1
UNSET == IndexMAX
as_usize(x) == x
as_indextype(index) == index % Pow2(IndexBits)

\* ---------------------------------------------------------------- vectors
At(s, k) == s[k + 1]
SetAt(s, k, x) == [s EXCEPT ![k + 1] = x]
\* Vec::resize(new_len, value): truncates or extends with value
Resize(s, n, x) == [k \in 1..n |-> IF k <= Len(s) THEN s[k] ELSE x]
\* Vec::insert(index, element)
InsertAt(s, index, x) ==
    SubSeq(s, 1, index) \o <<x>> \o SubSeq(s, index + 1, Len(s))
Min2(a, b) == IF a <= b THEN a ELSE b
Max2(a, b) == IF a >= b THEN a ELSE b

RECURSIVE SumSeq(_)
SumSeq(s) == IF s = <<>> THEN 0 ELSE s[1] + SumSeq(Tail(s))

RECURSIVE ConcatAll(_)
ConcatAll(ss) == IF ss = <<>> THEN <<>> ELSE ss[1] \o ConcatAll(Tail(ss))

\* ------------------------------------------------------- linked row index
RIL_new == [row_start |-> <<>>, index_list |-> <<>>]
RIL_n_entries(l) == Len(l.index_list)
RIL_n_rows(l) == Len(l.row_start)

RECURSIVE RIL_last(_, _)
\* a walk that stays at the slot it starts from
RIL_last_at_start(index_list, iter) == iter

\* the walk of push to the last slot of a chain
RIL_last(index_list, iter) ==
    IF At(index_list, iter) # UNSET
    THEN RIL_last(index_list, as_usize(At(index_list, iter)))
    ELSE iter

\* a push that links the new slot in as the head of its row's chain
RIL_push_at_head(l, row) ==
    LET rs == IF row >= Len(l.row_start)
              THEN Resize(l.row_start, row + 1, UNSET)
              ELSE l.row_start
        index == as_indextype(RIL_n_entries(l))
    IN  IF index = UNSET
        THEN [l |-> [l EXCEPT !.row_start = rs], index |-> 0,
              panic |-> "capacity"]
        ELSE [l |-> [row_start |-> SetAt(rs, row, index),
                     index_list |-> Append(l.index_list, At(rs, row))],
              index |-> as_usize(index), panic |-> "none"]

\* push(row): [l: the list afterwards, index: the slot, panic]
RIL_push(l, row) ==
    LET rs == IF row >= Len(l.row_start)
              THEN Resize(l.row_start, row + 1, UNSET)
              ELSE l.row_start
        index == as_indextype(RIL_n_entries(l))
    IN  IF index = UNSET
        THEN [l |-> [l EXCEPT !.row_start = rs], index |-> 0,
              panic |-> "capacity"]
        ELSE LET il == Append(l.index_list, UNSET)
             IN  IF At(rs, row) = UNSET
                 THEN [l |-> [row_start |-> SetAt(rs, row, index),
                              index_list |-> il],
                       index |-> as_usize(index), panic |-> "none"]
                 ELSE [l |-> [row_start |-> rs,
                              index_list |->
                                 SetAt(il, RIL_last(il, as_usize(At(rs, row))),
                                       index)],
                       index |-> as_usize(index), panic |-> "none"]

\* IterRow::next, run to the end: the slots of the chain from pos
RECURSIVE RIL_chain(_, _)
RIL_chain(l, pos) ==
    IF pos # UNSET
    THEN <<as_usize(pos)>> \o RIL_chain(l, At(l.index_list, as_usize(pos)))
    ELSE <<>>

RIL_iter_row(l, row) ==
    RIL_chain(l, IF row < RIL_n_rows(l) THEN At(l.row_start, row) ELSE UNSET)

\* ---------------------------------------- linked incremental engine (IL)
IL_make(track) ==
    [eng |-> "il", n_cols |-> 0, columns |-> <<>>, values |-> <<>>,
     indexlist |-> RIL_new, track_cols |-> track, rows |-> <<>>,
     indexlist_col |-> RIL_new, panic |-> "none"]
IL_with_capacity(cap) == IL_make(FALSE)
IL_with_column_track == IL_make(TRUE)

IL_n_rows(m) == RIL_n_rows(m.indexlist)
IL_n_cols(m) == m.n_cols
IL_n_non_zero_entries(m) == Len(m.columns)

\* the first slot of the chain whose column is col, or UNSET as usize
IL_first_hit(hits) == IF hits = <<>> THEN as_usize(UNSET) ELSE hits[1]
IL_find_index(m, i, j) ==
    IL_first_hit(IF i < IL_n_rows(m)
                 THEN SelectSeq(RIL_iter_row(m.indexlist, i),
                                LAMBDA index :
                                   At(m.columns, index) = as_indextype(j))
                 ELSE <<>>)

\* push(i, j, val), r and rc being what the two index lists returned:
\* [m: the matrix afterwards, h: the new offset]
IL_push_with(m, i, j, val, r, rc) ==
    IF r.panic # "none"
    THEN [m |-> [m EXCEPT !.n_cols = IF j >= @ THEN j + 1 ELSE @,
                          !.indexlist = r.l, !.panic = r.panic],
          h |-> 0]
    ELSE IF m.track_cols = TRUE
    THEN [m |-> [m EXCEPT !.n_cols = IF j >= @ THEN j + 1 ELSE @,
                          !.indexlist = r.l,
                          !.columns = Append(@, as_indextype(j)),
                          !.values = Append(@, val),
                          !.rows = Append(@, as_indextype(i)),
                          !.indexlist_col = rc.l,
                          !.panic = rc.panic],
          h |-> r.index]
    ELSE [m |-> [m EXCEPT !.n_cols = IF j >= @ THEN j + 1 ELSE @,
                          !.indexlist = r.l,
                          !.columns = Append(@, as_indextype(j)),
                          !.values = Append(@, val)],
          h |-> r.index]
IL_push(m, i, j, val) ==
    IL_push_with(m, i, j, val, RIL_push(m.indexlist, i),
                 RIL_push(m.indexlist_col, j))

IL_get_at(m, index) ==
    IF index # as_usize(UNSET) THEN At(m.values, index) ELSE 0
IL_get(m, i, j) == IL_get_at(m, IL_find_index(m, i, j))

\* get_mut(i, j): [m: the matrix afterwards, h: the offset of the cell]
IL_get_mut_at(m, i, j, index) ==
    IF index = as_usize(UNSET) THEN IL_push(m, i, j, 0)
    ELSE [m |-> m, h |-> index]
IL_get_mut(m, i, j) == IL_get_mut_at(m, i, j, IL_find_index(m, i, j))

IL_load(m, h) == At(m.values, h)
IL_store(m, h, val) == [m EXCEPT !.values = SetAt(@, h, val)]

\* iter_row(row), run to the end: the <<column, value>> pairs in chain order
IL_entries(m, slots) ==
    [k \in 1..Len(slots) |->
        <<At(m.columns, slots[k]), At(m.values, slots[k])>>]
IL_iter_row(m, row) == IL_entries(m, RIL_iter_row(m.indexlist, row))

\* --------------------------------------------- compressed-row engine (CRS)
CRS_with_capacity(cap) ==
    [eng |-> "crs", n_rows |-> 0, n_cols |-> 0, values |-> <<>>,
     columns |-> <<>>, offset_rows |-> <<>>, rows |-> <<>>,
     offset_cols |-> <<>>, panic |-> "none"]

CRS_n_rows(m) == m.n_rows
CRS_n_cols(m) == m.n_cols
CRS_n_non_zero_entries(m) == Len(m.columns)

\* the first index of start..end-1 whose column is j, or UNSET as usize
CRS_first_hit(hits) ==
    IF hits = {} THEN as_usize(UNSET)
    ELSE CHOOSE index \in hits : \A other \in hits : index <= other
CRS_find_index(m, i, j) ==
    IF i < CRS_n_rows(m)
    THEN CRS_first_hit({index \in as_usize(At(m.offset_rows, i))
                                  ..(as_usize(At(m.offset_rows, i + 1)) - 1) :
                           as_usize(At(m.columns, index)) = j})
    ELSE as_usize(UNSET)

\* the two resizes of offset_rows at the head of push
CRS_push_offsets(m, i) ==
    IF Len(m.offset_rows) = 0
    THEN Resize(m.offset_rows, i + 2, 0)
    ELSE IF i >= CRS_n_rows(m)
    THEN Resize(m.offset_rows, i + 2,
                At(m.offset_rows, Len(m.offset_rows) - 1))
    ELSE m.offset_rows

\* a push that inserts at the end of the row's range
CRS_push_at_end(m1, i, j, val, index) ==
    IF At(m1.offset_rows, i) = UNSET
    THEN [m |-> [m1 EXCEPT !.panic = "capacity"], h |-> 0]
    ELSE [m |-> [m1 EXCEPT
                   !.columns = InsertAt(@, as_usize(At(m1.offset_rows, i + 1)),
                                        as_indextype(j)),
                   !.values = InsertAt(@, as_usize(At(m1.offset_rows, i + 1)),
                                       val),
                   !.offset_rows =
                      [k \in 1..Len(@) |->
                          IF k - 1 >= i + 1
                          THEN (@[k] + 1) % Pow2(IndexBits)
                          ELSE @[k]]],
          h |-> as_usize(At(m1.offset_rows, i + 1))]

\* push(i, j, val) from the capacity check on, m1 holding n_cols, n_rows and
\* offset_rows as updated before it
CRS_push_at(m1, i, j, val, index) ==
    IF At(m1.offset_rows, i) = UNSET
    THEN [m |-> [m1 EXCEPT !.panic = "capacity"], h |-> 0]
    ELSE IF index > Len(m1.columns)
    THEN [m |-> [m1 EXCEPT !.panic = "insert_out_of_bounds"], h |-> 0]
    ELSE [m |-> [m1 EXCEPT
                   !.columns = InsertAt(@, index, as_indextype(j)),
                   !.values = InsertAt(@, index, val),
                   !.offset_rows =
                      [k \in 1..Len(@) |->
                          IF k - 1 >= i + 1
                          THEN (@[k] + 1) % Pow2(IndexBits)
                          ELSE @[k]]],
          h |-> index]
CRS_push_in(m1, i, j, val) ==
    CRS_push_at(m1, i, j, val, as_usize(At(m1.offset_rows, i)))
\* the head of push: n_cols, then offset_rows and n_rows
CRS_push_head(m, i, j) ==
    [m EXCEPT !.n_cols = IF j >= @ THEN j + 1 ELSE @,
              !.n_rows = IF Len(m.offset_rows) # 0 /\ i >= @
                         THEN i + 1 ELSE @,
              !.offset_rows = CRS_push_offsets(m, i)]
CRS_push(m, i, j, val) == CRS_push_in(CRS_push_head(m, i, j), i, j, val)

\* push in a build that checks arithmetic: "offset_rows[k] += I::ONE" panics
\* at the first k whose offset is the largest value of the index type, the
\* insert and the increments before k done
CRS_overflow_at(offsets, i) ==
    {k \in (i + 1)..(Len(offsets) - 1) : At(offsets, k) = IndexMAX}
CRS_push_stopped(m1, r, i, stop) ==
    [m |-> [r.m EXCEPT
              !.offset_rows =
                 [k \in 1..Len(@) |->
                     IF k - 1 >= i + 1 /\ k - 1 < stop
                     THEN m1.offset_rows[k] + 1 ELSE m1.offset_rows[k]],
              !.panic = "add_overflow"],
     h |-> 0]
CRS_push_checked(m1, r, i, over) ==
    IF r.m.panic # "none" \/ over = {} THEN r
    ELSE CRS_push_stopped(m1, r, i,
                          CHOOSE k \in over : \A o \in over : k <= o)
CRS_push_debug(m1, i, j, val) ==
    CRS_push_checked(m1, CRS_push_in(m1, i, j, val), i,
                     CRS_overflow_at(m1.offset_rows, i))

CRS_get_at(m, index) ==
    IF index # as_usize(UNSET) THEN At(m.values, index) ELSE 0
CRS_get(m, i, j) == CRS_get_at(m, CRS_find_index(m, i, j))

CRS_get_mut_at(m, i, j, index) ==
    IF index = as_usize(UNSET) THEN CRS_push(m, i, j, 0)
    ELSE [m |-> m, h |-> index]
CRS_get_mut(m, i, j) == CRS_get_mut_at(m, i, j, CRS_find_index(m, i, j))
\* get_mut(i, j) in the build given
CRS_get_mut_build(m, i, j, build) ==
    IF build = "debug" /\ CRS_find_index(m, i, j) = as_usize(UNSET)
    THEN CRS_push_debug(CRS_push_head(m, i, j), i, j, 0)
    ELSE CRS_get_mut(m, i, j)

CRS_load(m, h) == At(m.values, h)
CRS_store(m, h, val) == [m EXCEPT !.values = SetAt(@, h, val)]

CRS_slice(m, start, end) ==
    [k \in 1..(end - start) |->
        <<At(m.columns, start + k - 1), At(m.values, start + k - 1)>>]
CRS_iter_row(m, row) ==
    IF row < CRS_n_rows(m)
    THEN CRS_slice(m, as_usize(At(m.offset_rows, row)),
                   as_usize(At(m.offset_rows, row + 1)))
    ELSE <<>>

\* ------------------------------------------------ row-of-arrays engine (RV)
RV_with_capacity(cap) ==
    [eng |-> "rv", n_cols |-> 0, nnz |-> 0, values |-> <<>>,
     columns |-> <<>>, panic |-> "none"]

RV_n_rows(m) == Len(m.columns)
RV_n_cols(m) == m.n_cols
RV_n_non_zero_entries(m) == m.nnz

\* the first index of row i whose column is col, or UNSET as usize
RV_first_hit(hits) ==
    IF hits = {} THEN as_usize(UNSET)
    ELSE CHOOSE index \in hits : \A other \in hits : index <= other
RV_find_index(m, i, j) ==
    IF i < RV_n_rows(m)
    THEN RV_first_hit({index \in 0..(Len(At(m.columns, i)) - 1) :
                          At(At(m.columns, i), index) = as_indextype(j)})
    ELSE as_usize(UNSET)

\* push(i, j, val) after the resize of the two row vectors:
\* [m: the matrix afterwards, h: <<row, offset in the row>>]
RV_push_in(m1, i, j, val) ==
    [m |-> [m1 EXCEPT
              !.n_cols = IF j >= @ THEN j + 1 ELSE @,
              !.columns = SetAt(@, i, Append(At(@, i), as_indextype(j))),
              !.values = SetAt(@, i, Append(At(@, i), val)),
              !.nnz = @ + 1],
     h |-> <<i, Len(At(m1.columns, i))>>]
RV_push(m, i, j, val) ==
    RV_push_in(IF i >= RV_n_rows(m)
               THEN [m EXCEPT !.columns = Resize(@, i + 1, <<>>),
                              !.values = Resize(@, i + 1, <<>>)]
               ELSE m,
               i, j, val)

RV_get_at(m, i, index) ==
    IF index # as_usize(UNSET) THEN At(At(m.values, i), index) ELSE 0
RV_get(m, i, j) == RV_get_at(m, i, RV_find_index(m, i, j))

RV_get_mut_at(m, i, j, index) ==
    IF index = as_usize(UNSET) THEN RV_push(m, i, j, 0)
    ELSE [m |-> m, h |-> <<i, index>>]
RV_get_mut(m, i, j) == RV_get_mut_at(m, i, j, RV_find_index(m, i, j))

RV_load(m, h) == At(At(m.values, h[1]), h[2])
RV_store(m, h, val) ==
    [m EXCEPT !.values = SetAt(@, h[1], SetAt(At(@, h[1]), h[2], val))]

\* iter_row(row) panics for a row the matrix does not have
RV_iter_row_ok(m, row) == row < RV_n_rows(m)
RV_zip(cols, vals) == [k \in 1..Len(cols) |-> <<cols[k], vals[k]>>]
RV_iter_row(m, row) ==
    IF RV_iter_row_ok(m, row)
    THEN RV_zip(At(m.columns, row), At(m.values, row))
    ELSE <<>>

\* --------------------------- block-partitioned engine (Par), blocks are IL
PAR_with_sub_matrices(n_blocks, max_n_rows) ==
    [eng |-> "par", n_rows_sub_matrix |-> max_n_rows \div n_blocks,
     n_blocks |-> n_blocks,
     sub_matrices |->
        [b \in 1..n_blocks |-> IL_with_capacity(max_n_rows \div n_blocks)],
     panic |-> "none"]
PAR_with_capacity(cap) == PAR_with_sub_matrices(ParDefaultBlocks, cap)

\* get_block_and_row_id(row): the division panics for blocks of no rows; a
\* block_id equal to n_blocks makes the caller's sub_matrices[block_id] panic
PAR_block_id(m, row) == Min2(row \div m.n_rows_sub_matrix, m.n_blocks)
PAR_get_block_and_row_id(m, row) ==
    IF m.n_rows_sub_matrix = 0
    THEN [block_id |-> 0, row_id |-> 0, panic |-> "divide_by_zero"]
    ELSE IF PAR_block_id(m, row) >= Len(m.sub_matrices)
    THEN [block_id |-> PAR_block_id(m, row), row_id |-> 0,
          panic |-> "index_out_of_bounds"]
    ELSE [block_id |-> PAR_block_id(m, row),
          row_id |-> row - PAR_block_id(m, row) * m.n_rows_sub_matrix,
          panic |-> "none"]

\* M::empty(): the sub-matrix holds no entry
M_empty(sub) == IL_n_non_zero_entries(sub) = 0

\* the loop of n_rows: the last block before the first empty one (0 if none)
RECURSIVE PAR_last(_, _, _)
PAR_last(m, b, last) ==
    IF b >= Len(m.sub_matrices) THEN last
    ELSE IF M_empty(At(m.sub_matrices, b)) THEN last
    ELSE PAR_last(m, b + 1, b)
PAR_n_rows_from(m, last) ==
    last * m.n_rows_sub_matrix + IL_n_rows(At(m.sub_matrices, last))
PAR_n_rows(m) == PAR_n_rows_from(m, PAR_last(m, 0, 0))

RECURSIVE PAR_max_cols(_, _)
PAR_max_cols(subs, ret) ==
    IF subs = <<>> THEN ret
    ELSE PAR_max_cols(Tail(subs), Max2(IL_n_cols(subs[1]), ret))
PAR_n_cols(m) == PAR_max_cols(m.sub_matrices, 0)

PAR_n_non_zero_entries(m) ==
    SumSeq([b \in 1..Len(m.sub_matrices) |->
               IL_n_non_zero_entries(m.sub_matrices[b])])

PAR_get_ok(m, i) == PAR_get_block_and_row_id(m, i).panic = "none"
PAR_get_in(m, j, br) ==
    IF br.panic = "none"
    THEN IL_get(At(m.sub_matrices, br.block_id), br.row_id, j)
    ELSE 0
PAR_get(m, i, j) == PAR_get_in(m, j, PAR_get_block_and_row_id(m, i))

\* get_mut(i, j): h is <<block, offset in the block>>
PAR_get_mut_done(m, block_id, r) ==
    [m |-> [m EXCEPT !.sub_matrices = SetAt(@, block_id, r.m),
                     !.panic = r.m.panic],
     h |-> <<block_id, r.h>>]
PAR_get_mut_in(m, j, br) ==
    IF br.panic # "none"
    THEN [m |-> [m EXCEPT !.panic = br.panic], h |-> <<0, 0>>]
    ELSE PAR_get_mut_done(m, br.block_id,
                          IL_get_mut(At(m.sub_matrices, br.block_id),
                                     br.row_id, j))
PAR_get_mut(m, i, j) == PAR_get_mut_in(m, j, PAR_get_block_and_row_id(m, i))

PAR_load(m, h) == IL_load(At(m.sub_matrices, h[1]), h[2])
PAR_store(m, h, val) ==
    [m EXCEPT !.sub_matrices =
                 SetAt(@, h[1], IL_store(At(@, h[1]), h[2], val))]

PAR_iter_row_ok(m, row) == PAR_get_block_and_row_id(m, row).panic = "none"
PAR_iter_row_in(m, br) ==
    IF br.panic = "none"
    THEN IL_iter_row(At(m.sub_matrices, br.block_id), br.row_id)
    ELSE <<>>
PAR_iter_row(m, row) == PAR_iter_row_in(m, PAR_get_block_and_row_id(m, row))

\* -------------------------- the SparseMatrix trait, dispatched on the engine
Engines == {"il", "crs", "rv", "par"}

with_capacity(eng, cap) ==
    CASE eng = "il" -> IL_with_capacity(cap)
      [] eng = "crs" -> CRS_with_capacity(cap)
      [] eng = "rv" -> RV_with_capacity(cap)
      [] eng = "par" -> PAR_with_capacity(cap)

n_rows(m) ==
    CASE m.eng = "il" -> IL_n_rows(m)
      [] m.eng = "crs" -> CRS_n_rows(m)
      [] m.eng = "rv" -> RV_n_rows(m)
      [] m.eng = "par" -> PAR_n_rows(m)

n_cols(m) ==
    CASE m.eng = "il" -> IL_n_cols(m)
      [] m.eng = "crs" -> CRS_n_cols(m)
      [] m.eng = "rv" -> RV_n_cols(m)
      [] m.eng = "par" -> PAR_n_cols(m)

n_non_zero_entries(m) ==
    CASE m.eng = "il" -> IL_n_non_zero_entries(m)
      [] m.eng = "crs" -> CRS_n_non_zero_entries(m)
      [] m.eng = "rv" -> RV_n_non_zero_entries(m)
      [] m.eng = "par" -> PAR_n_non_zero_entries(m)

\* get(i, j) returns (does not panic)
get_ok(m, i, j) == m.eng = "par" => PAR_get_ok(m, i)
get(m, i, j) ==
    CASE m.eng = "il" -> IL_get(m, i, j)
      [] m.eng = "crs" -> CRS_get(m, i, j)
      [] m.eng = "rv" -> RV_get(m, i, j)
      [] m.eng = "par" -> PAR_get(m, i, j)

\* get_mut(i, j): [m: the matrix afterwards, h: the cell the reference is to]
get_mut(m, i, j) ==
    CASE m.eng = "il" -> IL_get_mut(m, i, j)
      [] m.eng = "crs" -> CRS_get_mut(m, i, j)
      [] m.eng = "rv" -> RV_get_mut(m, i, j)
      [] m.eng = "par" -> PAR_get_mut(m, i, j)

\* reading and writing through the reference get_mut returned
load(m, h) ==
    CASE m.eng = "il" -> IL_load(m, h)
      [] m.eng = "crs" -> CRS_load(m, h)
      [] m.eng = "rv" -> RV_load(m, h)
      [] m.eng = "par" -> PAR_load(m, h)
store(m, h, val) ==
    CASE m.eng = "il" -> IL_store(m, h, val)
      [] m.eng = "crs" -> CRS_store(m, h, val)
      [] m.eng = "rv" -> RV_store(m, h, val)
      [] m.eng = "par" -> PAR_store(m, h, val)

iter_row_ok(m, row) ==
    CASE m.eng = "rv" -> RV_iter_row_ok(m, row)
      [] m.eng = "par" -> PAR_iter_row_ok(m, row)
      [] OTHER -> TRUE
iter_row(m, row) ==
    CASE m.eng = "il" -> IL_iter_row(m, row)
      [] m.eng = "crs" -> CRS_iter_row(m, row)
      [] m.eng = "rv" -> RV_iter_row(m, row)
      [] m.eng = "par" -> PAR_iter_row(m, row)

\* *r = val and *r += val, r being what get_mut returned; a matrix that has
\* panicked stays as the panic left it
assign(r, val) ==
    IF r.m.panic # "none" THEN r.m ELSE store(r.m, r.h, val)
add_assign(r, val) ==
    IF r.m.panic # "none" THEN r.m
    ELSE store(r.m, r.h, load(r.m, r.h) + val)

set(m, i, j, val) ==
    IF m.panic # "none" THEN m ELSE assign(get_mut(m, i, j), val)
add_to(m, i, j, val) ==
    IF m.panic # "none" THEN m ELSE add_assign(get_mut(m, i, j), val)
\* a bare get_mut(i, j) whose reference is dropped
touch(m, i, j) ==
    IF m.panic # "none" THEN m ELSE get_mut(m, i, j).m

RECURSIVE eye_from(_, _, _)
eye_from(ret, i, dim) ==
    IF i >= dim THEN ret ELSE eye_from(set(ret, i, i, 1), i + 1, dim)
eye(eng, dim) == eye_from(with_capacity(eng, dim), 0, dim)

\* the double loop "for i in 0..n_rows() for (col, val) in iter_row(i)":
\* the <<i, j, val>> it visits, in order, up to a row whose iter_row panics
row_triples(i, row) ==
    [k \in 1..Len(row) |-> <<i, as_usize(row[k][1]), row[k][2]>>]
RECURSIVE row_loop(_, _)
row_loop(m, i) ==
    IF i >= n_rows(m) \/ ~iter_row_ok(m, i) THEN <<>>
    ELSE row_triples(i, iter_row(m, i)) \o row_loop(m, i + 1)
row_loop_ok(m) == \A i \in 0..(n_rows(m) - 1) : iter_row_ok(m, i)
\* the panic of the loop itself, if the callee's writes raised none
loop_end(ret, ok) ==
    IF ok \/ ret.panic # "none" THEN ret
    ELSE [ret EXCEPT !.panic = "invalid_row"]

\* add and sub: *self.get_mut(i, j) += val, respectively -= val
RECURSIVE accumulate(_, _, _)
accumulate(self, triples, sign) ==
    IF triples = <<>> THEN self
    ELSE accumulate(add_to(self, triples[1][1], triples[1][2],
                           sign * triples[1][3]),
                    Tail(triples), sign)
add(self, rhs) ==
    loop_end(accumulate(self, row_loop(rhs, 0), 1), row_loop_ok(rhs))
sub(self, rhs) ==
    loop_end(accumulate(self, row_loop(rhs, 0), -1), row_loop_ok(rhs))

RECURSIVE transpose_fill(_, _)
transpose_fill(ret, triples) ==
    IF triples = <<>> THEN ret
    ELSE transpose_fill(set(ret, triples[1][2], triples[1][1], triples[1][3]),
                        Tail(triples))
transpose(m) ==
    IF m.panic # "none" THEN m
    ELSE loop_end(transpose_fill(with_capacity(m.eng, n_non_zero_entries(m)),
                                 row_loop(m, 0)),
                  row_loop_ok(m))

\* ---------------------------------------------------------------- DenseVec
DV_with_capacity(cap) == <<>>
DV_dim(v) == Len(v)
DV_get_ok(v, i) == i < Len(v)
DV_get(v, i) == At(v, i)
DV_get_mut(v, i) == IF i >= Len(v) THEN Resize(v, i + 1, 0) ELSE v
DV_set(v, i, val) == SetAt(DV_get_mut(v, i), i, val)

\* mvp(rhs): [vec: the vector built, panic]
mvp_row_ok(rhs, row) ==
    \A k \in 1..Len(row) : DV_get_ok(rhs, as_usize(row[k][1]))
mvp_sum(rhs, row) ==
    SumSeq([k \in 1..Len(row) |-> DV_get(rhs, as_usize(row[k][1])) * row[k][2]])
RECURSIVE mvp_from(_, _, _, _)
mvp_row(m, rhs, i, ret, row) ==
    IF ~mvp_row_ok(rhs, row)
    THEN [vec |-> ret, panic |-> "index_out_of_bounds"]
    ELSE mvp_from(m, rhs, i + 1, DV_set(ret, i, mvp_sum(rhs, row)))
mvp_from(m, rhs, i, ret) ==
    IF i >= n_rows(m) THEN [vec |-> ret, panic |-> "none"]
    ELSE IF ~iter_row_ok(m, i) THEN [vec |-> ret, panic |-> "invalid_row"]
    ELSE mvp_row(m, rhs, i, ret, iter_row(m, i))
mvp(m, rhs) == mvp_from(m, rhs, 0, DV_with_capacity(n_rows(m)))

\* ------------------------------------ conversion IL -> CRS (to the flat form)
\* the column view of the linked engine, after its column index list
IL_has_iter_col(m) == Len(m.rows) > 0
IL_col_entries(m, slots) ==
    [k \in 1..Len(slots) |-> <<At(m.rows, slots[k]), At(m.values, slots[k])>>]
IL_iter_col(m, col) == IL_col_entries(m, RIL_iter_row(m.indexlist_col, col))

\* a conversion that records the offset of a row after the row's entries
CRS_append_row_late(acc, row) ==
    [columns |-> acc.columns \o [k \in 1..Len(row) |-> row[k][1]],
     values |-> acc.values \o [k \in 1..Len(row) |-> row[k][2]],
     offset_rows |->
        Append(acc.offset_rows, as_indextype(Len(acc.columns) + Len(row)))]

\* one turn of the loop over the rows: the offset of the row, then its entries
CRS_append_row(acc, row) ==
    [columns |-> acc.columns \o [k \in 1..Len(row) |-> row[k][1]],
     values |-> acc.values \o [k \in 1..Len(row) |-> row[k][2]],
     offset_rows |-> Append(acc.offset_rows, as_indextype(Len(acc.columns)))]
RECURSIVE CRS_from_rows(_, _, _)
CRS_from_rows(rhs, i, acc) ==
    IF i >= IL_n_rows(rhs) THEN acc
    ELSE CRS_from_rows(rhs, i + 1, CRS_append_row(acc, IL_iter_row(rhs, i)))

\* one turn of the loop over the columns
CRS_append_col(acc, col) ==
    [rows |-> acc.rows \o [k \in 1..Len(col) |-> col[k][1]],
     offset_cols |-> Append(acc.offset_cols, as_indextype(Len(acc.rows)))]
RECURSIVE CRS_from_cols(_, _, _)
CRS_from_cols(rhs, j, acc) ==
    IF j >= IL_n_cols(rhs) THEN acc
    ELSE CRS_from_cols(rhs, j + 1, CRS_append_col(acc, IL_iter_col(rhs, j)))

\* the struct built at the end, r and c being what the two loops collected
CRS_assemble(rhs, r, c) ==
    [eng |-> "crs",
     n_rows |-> Len(Append(r.offset_rows, as_indextype(Len(r.columns)))) - 1,
     n_cols |-> IL_n_cols(rhs),
     values |-> r.values, columns |-> r.columns,
     offset_rows |-> Append(r.offset_rows, as_indextype(Len(r.columns))),
     rows |-> c.rows, offset_cols |-> c.offset_cols, panic |-> "none"]
CRS_from_sparsemat_index(rhs) ==
    IF IL_n_non_zero_entries(rhs) > 0
    THEN CRS_assemble(rhs,
            CRS_from_rows(rhs, 0, [columns |-> <<>>, values |-> <<>>,
                                   offset_rows |-> <<>>]),
            IF IL_has_iter_col(rhs)
            THEN CRS_from_cols(rhs, 0, [rows |-> <<>>, offset_cols |-> <<>>])
            ELSE [rows |-> <<>>, offset_cols |-> <<>>])
    ELSE CRS_with_capacity(0)

\* ------------------------------------------------------------------- state
VARIABLES
    il, crs, rv, par,  \* one matrix of each engine, given the same writes
    written,           \* the keys (i, j) written so far
    nOps,              \* the number of writes so far
    last,              \* the last write and what get, nnz were before it
    res                \* the result of the last algorithm run on the matrices
vars == <<il, crs, rv, par, written, nOps, last, res>>

M(eng) ==
    CASE eng = "il" -> il
      [] eng = "crs" -> crs
      [] eng = "rv" -> rv
      [] eng = "par" -> par

NoRes == [kind |-> "none"]
NoOp == [op |-> "none"]
\* what a write to (i, j) finds: per engine the value and the entry count
Pre(i, j) ==
    [eng \in Engines |->
        [val |-> get(M(eng), i, j), nnz |-> n_non_zero_entries(M(eng))]]
Op(op, i, j, v) ==
    [op |-> op, i |-> i, j |-> j, v |-> v, had |-> <<i, j>> \in written,
     pre |-> Pre(i, j)]

Init ==
    /\ il \in {IL_with_capacity(0), IL_with_column_track}
    /\ crs = CRS_with_capacity(0)
    /\ rv = RV_with_capacity(0)
    /\ par = PAR_with_sub_matrices(ParBlocks, ParMaxRows)
    /\ written = {}
    /\ nOps = 0
    /\ last = NoOp
    /\ res = NoRes

\* ------------------------------------------- writes, the same to each engine
Set(i, j, v) ==
    /\ nOps < MaxOps
    /\ il' = set(il, i, j, v)
    /\ crs' = set(crs, i, j, v)
    /\ rv' = set(rv, i, j, v)
    /\ par' = set(par, i, j, v)
    /\ written' = written \cup {<<i, j>>}
    /\ nOps' = nOps + 1
    /\ last' = Op("set", i, j, v)
    /\ res' = NoRes

AddTo(i, j, v) ==
    /\ nOps < MaxOps
    /\ il' = add_to(il, i, j, v)
    /\ crs' = add_to(crs, i, j, v)
    /\ rv' = add_to(rv, i, j, v)
    /\ par' = add_to(par, i, j, v)
    /\ written' = written \cup {<<i, j>>}
    /\ nOps' = nOps + 1
    /\ last' = Op("add_to", i, j, v)
    /\ res' = NoRes

GetMut(i, j) ==
    /\ nOps < MaxOps
    /\ il' = touch(il, i, j)
    /\ crs' = touch(crs, i, j)
    /\ rv' = touch(rv, i, j)
    /\ par' = touch(par, i, j)
    /\ written' = written \cup {<<i, j>>}
    /\ nOps' = nOps + 1
    /\ last' = Op("get_mut", i, j, 0)
    /\ res' = NoRes

\* eye(n) of each engine replaces the four matrices
Eye(n) ==
    /\ nOps = 0
    /\ il' = eye("il", n)
    /\ crs' = eye("crs", n)
    /\ rv' = eye("rv", n)
    /\ par' = eye("par", n)
    /\ written' = {<<i, i>> : i \in 0..(n - 1)}
    /\ nOps' = MaxOps
    /\ last' = [op |-> "eye", n |-> n]
    /\ res' = NoRes

Next ==
    \/ \E i \in Rows, j \in Cols, v \in Vals : Set(i, j, v)
    \/ \E i \in Rows, j \in Cols, v \in Vals : AddTo(i, j, v)
    \/ \E i \in Rows, j \in Cols : GetMut(i, j)
    \/ \E n \in 1..MaxDim : Eye(n)

Spec == Init /\ [][Next]_vars

\* --------------------------------------------- conversion of the IL matrix
ToCrs ==
    /\ res' = [kind |-> "to_crs", src |-> il,
               crs |-> CRS_from_sparsemat_index(il)]
    /\ UNCHANGED <<il, crs, rv, par, written, nOps, last>>

\* writes to the IL matrix alone
IlSet(i, j, v) ==
    /\ nOps < MaxOps
    /\ il' = set(il, i, j, v)
    /\ nOps' = nOps + 1
    /\ res' = NoRes
    /\ UNCHANGED <<crs, rv, par, written, last>>

IlAddTo(i, j, v) ==
    /\ nOps < MaxOps
    /\ il' = add_to(il, i, j, v)
    /\ nOps' = nOps + 1
    /\ res' = NoRes
    /\ UNCHANGED <<crs, rv, par, written, last>>

IlGetMut(i, j) ==
    /\ nOps < MaxOps
    /\ il' = touch(il, i, j)
    /\ nOps' = nOps + 1
    /\ res' = NoRes
    /\ UNCHANGED <<crs, rv, par, written, last>>

NextCrs ==
    \/ \E i \in Rows, j \in Cols, v \in Vals : IlSet(i, j, v)
    \/ \E i \in Rows, j \in Cols, v \in Vals : IlAddTo(i, j, v)
    \/ \E i \in Rows, j \in Cols : IlGetMut(i, j)
    \/ ToCrs

SpecCrs == Init /\ [][NextCrs]_vars

\* ------------------------------------ the algorithms, run on every engine
\* (one algorithm is run on the matrices that a run of writes has built)
\* the dense vectors mvp is given: every length up to the widest matrix
DenseVecs == UNION {[1..n -> Vals] : n \in 0..(MaxCol + 1)}

Mvp(v) ==
    /\ res = NoRes
    /\ res' = [kind |-> "mvp", v |-> v,
               out |-> [eng \in Engines |-> mvp(M(eng), v)]]
    /\ UNCHANGED <<il, crs, rv, par, written, nOps, last>>

\* the empty matrix of an engine, as Init builds it
Empty(eng) ==
    CASE eng = "il" -> IL_with_capacity(0)
      [] eng = "crs" -> CRS_with_capacity(0)
      [] eng = "rv" -> RV_with_capacity(0)
      [] eng = "par" -> PAR_with_sub_matrices(ParBlocks, ParMaxRows)

\* the receiver A of add and sub: an empty matrix, a clone of the matrix
\* built by the writes, or that matrix added to itself
Receivers == {"new", "clone", "sum"}
Receiver(which, eng) ==
    CASE which = "new" -> Empty(eng)
      [] which = "clone" -> M(eng)
      [] which = "sum" -> add(M(eng), M(eng))

\* A.add(B) and A.sub(B) for A of every engine and B of every engine
Add(which) ==
    /\ res = NoRes
    /\ res' = [kind |-> "add", which |-> which,
               a |-> [ea \in Engines |-> Receiver(which, ea)],
               out |-> [ea \in Engines |-> [eb \in Engines |->
                          add(Receiver(which, ea), M(eb))]]]
    /\ UNCHANGED <<il, crs, rv, par, written, nOps, last>>

Sub(which) ==
    /\ res = NoRes
    /\ res' = [kind |-> "sub", which |-> which,
               a |-> [ea \in Engines |-> Receiver(which, ea)],
               out |-> [ea \in Engines |-> [eb \in Engines |->
                          sub(Receiver(which, ea), M(eb))]]]
    /\ UNCHANGED <<il, crs, rv, par, written, nOps, last>>

Transpose ==
    /\ res = NoRes
    /\ res' = [kind |-> "transpose",
               t |-> [eng \in Engines |-> transpose(M(eng))],
               tt |-> [eng \in Engines |-> transpose(transpose(M(eng)))]]
    /\ UNCHANGED <<il, crs, rv, par, written, nOps, last>>

NextAlg ==
    \/ \E i \in Rows, j \in Cols, v \in Vals : Set(i, j, v)
    \/ \E i \in Rows, j \in Cols, v \in Vals : AddTo(i, j, v)
    \/ \E i \in Rows, j \in Cols : GetMut(i, j)
    \/ \E v \in DenseVecs : Mvp(v)
    \/ \E which \in Receivers : Add(which)
    \/ \E which \in Receivers : Sub(which)
    \/ Transpose

SpecAlg == Init /\ [][NextAlg]_vars

\* ------------------------------------------------ the iterators over all
\* the build decides what "n_rows() - 1" does for n_rows() = 0: a debug build
\* panics on the subtraction, a release build wraps to the largest usize
Builds == {"debug", "release"}
row_below_last(row, n, build) ==
    IF n = 0 THEN (IF build = "debug" THEN "panic" ELSE "true")
    ELSE IF row < n - 1 THEN "true" ELSE "false"

\* an iterator run to its end: the items it yields and the panic that ends it
IterEnd == [items |-> <<>>, panic |-> "none"]
IterPanic(kind) == [items |-> <<>>, panic |-> kind]
IterCons(item, r) == [items |-> <<item>> \o r.items, panic |-> r.panic]

\* rowindexlist Iter::next from (row, pos): items are <<row, slot>>
RECURSIVE RIL_iter_next(_, _, _, _)
RIL_iter_advance(l, row, build, c) ==
    IF c = "panic" THEN IterPanic("subtract_overflow")
    ELSE IF c = "false" THEN IterEnd
    ELSE IF row + 1 >= Len(l.row_start) THEN IterPanic("index_out_of_bounds")
    ELSE RIL_iter_next(l, row + 1, At(l.row_start, row + 1), build)
RIL_iter_next(l, row, pos, build) ==
    IF pos = UNSET
    THEN RIL_iter_advance(l, row, build,
                          row_below_last(row, RIL_n_rows(l), build))
    ELSE IterCons(<<row, as_usize(pos)>>,
                  RIL_iter_next(l, row, At(l.index_list, as_usize(pos)), build))
\* iter() reads row_start[0]
RIL_iter(l, build) ==
    IF Len(l.row_start) = 0 THEN IterPanic("index_out_of_bounds")
    ELSE RIL_iter_next(l, 0, At(l.row_start, 0), build)

IL_iter_items(m, r) ==
    [items |-> [k \in 1..Len(r.items) |->
                   <<r.items[k][1], At(m.columns, r.items[k][2]),
                     At(m.values, r.items[k][2])>>],
     panic |-> r.panic]
IL_iter(m, build) == IL_iter_items(m, RIL_iter(m.indexlist, build))

\* SparseMatCRS Iter::next from (row, pos)
RECURSIVE CRS_iter_next(_, _, _, _)
CRS_iter_emit(m, row, pos, build) ==
    IF as_usize(pos) < CRS_n_non_zero_entries(m)
    THEN IterCons(<<row, At(m.columns, as_usize(pos)),
                    At(m.values, as_usize(pos))>>,
                  CRS_iter_next(m, row, (pos + 1) % Pow2(IndexBits), build))
    ELSE IterEnd
CRS_iter_advance(m, row, pos, build, c) ==
    IF c = "panic" THEN IterPanic("subtract_overflow")
    ELSE IF c = "true" THEN CRS_iter_next(m, row + 1, pos, build)
    ELSE CRS_iter_emit(m, row, pos, build)
CRS_iter_next(m, row, pos, build) ==
    IF row + 1 >= Len(m.offset_rows) THEN IterPanic("index_out_of_bounds")
    ELSE IF pos = At(m.offset_rows, row + 1)
    THEN CRS_iter_advance(m, row, pos, build,
                          row_below_last(row, CRS_n_rows(m), build))
    ELSE CRS_iter_emit(m, row, pos, build)
CRS_iter(m, build) == CRS_iter_next(m, 0, 0, build)

\* SparseMatRowVec Iter::next from (row, pos)
RECURSIVE RV_iter_next(_, _, _, _)
RV_iter_emit(m, row, pos, build) ==
    IF row >= Len(m.columns) THEN IterPanic("index_out_of_bounds")
    ELSE IF pos < Len(At(m.columns, row))
    THEN IterCons(<<row, At(At(m.columns, row), pos),
                    At(At(m.values, row), pos)>>,
                  RV_iter_next(m, row, pos + 1, build))
    ELSE IterEnd
RV_iter_advance(m, row, pos, build, c) ==
    IF c = "panic" THEN IterPanic("subtract_overflow")
    ELSE IF c = "false" THEN RV_iter_emit(m, row, pos, build)
    ELSE IF row >= Len(m.columns) THEN IterPanic("index_out_of_bounds")
    ELSE IF pos = Len(At(m.columns, row))
    THEN RV_iter_next(m, row + 1, 0, build)
    ELSE RV_iter_emit(m, row, pos, build)
RV_iter_next(m, row, pos, build) ==
    RV_iter_advance(m, row, pos, build,
                    row_below_last(row, RV_n_rows(m), build))
RV_iter(m, build) == RV_iter_next(m, 0, 0, build)

\* the engines that implement iter (the block-partitioned one does not)
IterEngines == {"il", "crs", "rv"}
iter(m, build) ==
    CASE m.eng = "il" -> IL_iter(m, build)
      [] m.eng = "crs" -> CRS_iter(m, build)
      [] m.eng = "rv" -> RV_iter(m, build)

\* is_symmetric: false at the first item whose mirror differs, else the
\* panic that ended the iteration, else true
is_symmetric_over(m, it) ==
    IF \E k \in 1..Len(it.items) :
          get(m, as_usize(it.items[k][2]), it.items[k][1]) # it.items[k][3]
    THEN "false"
    ELSE IF it.panic # "none" THEN it.panic
    ELSE "true"
is_symmetric(m, build) == is_symmetric_over(m, iter(m, build))

IsSymmetric(build) ==
    /\ res = NoRes
    /\ res' = [kind |-> "is_symmetric", build |-> build,
               out |-> [eng \in IterEngines |-> is_symmetric(M(eng), build)]]
    /\ UNCHANGED <<il, crs, rv, par, written, nOps, last>>

\* ------------------------------------------------- Sortable (CRS only)
\* slice::sort_by on the column: stable, ascending
stable_insert(sorted, x) ==
    InsertAt(sorted,
             Cardinality({p \in 1..Len(sorted) : sorted[p][1] <= x[1]}), x)
RECURSIVE sort_by_col(_, _)
sort_by_col(s, acc) ==
    IF s = <<>> THEN acc ELSE sort_by_col(Tail(s), stable_insert(acc, s[1]))

\* a write-back that starts at the head of the flat arrays
CRS_write_back_at_zero(m, offset, cols_vals) ==
    [m EXCEPT
       !.columns = [k \in 1..Len(@) |->
                      IF k <= Len(cols_vals) THEN cols_vals[k][1] ELSE @[k]],
       !.values = [k \in 1..Len(@) |->
                      IF k <= Len(cols_vals) THEN cols_vals[k][2] ELSE @[k]]]

\* the write-back loop: entry count goes to index offset + count
CRS_write_back(m, offset, cols_vals) ==
    [m EXCEPT
       !.columns = [k \in 1..Len(@) |->
                      IF k > offset /\ k <= offset + Len(cols_vals)
                      THEN cols_vals[k - offset][1] ELSE @[k]],
       !.values = [k \in 1..Len(@) |->
                      IF k > offset /\ k <= offset + Len(cols_vals)
                      THEN cols_vals[k - offset][2] ELSE @[k]]]
CRS_sort_write(m, i, cols_vals) ==
    IF i >= Len(m.offset_rows)
    THEN [m EXCEPT !.panic = "index_out_of_bounds"]
    ELSE CRS_write_back(m, as_usize(At(m.offset_rows, i)), cols_vals)
CRS_sort_row(m, i) ==
    IF m.panic # "none" THEN m
    ELSE CRS_sort_write(m, i, sort_by_col(CRS_iter_row(m, i), <<>>))

\* is_sorted_row(i): no column below its predecessor
is_sorted_cols(row) ==
    \A k \in 2..Len(row) : ~(as_usize(row[k][1]) < as_usize(row[k - 1][1]))
is_sorted_row(m, i) == is_sorted_cols(iter_row(m, i))

\* writes to the CRS matrix alone, and sort_row on it
CrsSet(i, j, v) ==
    /\ nOps < MaxOps
    /\ crs' = set(crs, i, j, v)
    /\ nOps' = nOps + 1
    /\ last' = NoOp
    /\ UNCHANGED <<il, rv, par, written, res>>

CrsGetMut(i, j) ==
    /\ nOps < MaxOps
    /\ crs' = touch(crs, i, j)
    /\ nOps' = nOps + 1
    /\ last' = NoOp
    /\ UNCHANGED <<il, rv, par, written, res>>

SortRow(i) ==
    /\ crs.panic = "none"
    /\ crs' = CRS_sort_row(crs, i)
    /\ last' = [op |-> "sort_row", i |-> i, pre |-> crs]
    /\ UNCHANGED <<il, rv, par, written, nOps, res>>

NextSort ==
    \/ \E i \in Rows, j \in Cols, v \in Vals : CrsSet(i, j, v)
    \/ \E i \in Rows, j \in Cols : CrsGetMut(i, j)
    \/ \E i \in Rows : SortRow(i)

SpecSort == Init /\ [][NextSort]_vars

\* ------------------------------------------- ColumnIter (CRS only)
\* the loop body is a TODO: nothing is written
CRS_assemble_column_info(m) == m
CRS_has_iter_col(m) == Len(m.rows) > 0
\* rows[start..end] zipped with values[start..end]
CRS_col_slice(m, start, end) ==
    IF start > end \/ end > Len(m.rows) \/ end > Len(m.values)
    THEN IterPanic("index_out_of_bounds")
    ELSE [items |-> [k \in 1..(end - start) |->
                       <<At(m.rows, start + k - 1),
                         At(m.values, start + k - 1)>>],
          panic |-> "none"]
CRS_iter_col(m, col) ==
    IF Len(m.rows) # Len(m.columns)
    THEN IterPanic("column_iterator_not_available")
    ELSE IF col + 1 >= Len(m.offset_cols)
    THEN IterPanic("index_out_of_bounds")
    ELSE CRS_col_slice(m, as_usize(At(m.offset_cols, col)),
                       as_usize(At(m.offset_cols, col + 1)))

AssembleColumnInfo ==
    /\ res = NoRes
    /\ res' = [kind |-> "assemble_column_info",
               has |-> CRS_has_iter_col(CRS_assemble_column_info(crs)),
               cols |-> [j \in 0..(MaxCol + 1) |->
                           CRS_iter_col(CRS_assemble_column_info(crs), j)]]
    /\ UNCHANGED <<il, crs, rv, par, written, nOps, last>>

IterCol(c) ==
    /\ res = NoRes
    /\ res' = [kind |-> "iter_col", c |-> c, out |-> CRS_iter_col(crs, c)]
    /\ UNCHANGED <<il, crs, rv, par, written, nOps, last>>

\* ------------------------------------------------------------------ prod
\* take_while(|(col, _v)| *col <= row) on the sorted row
RECURSIVE take_while_le(_, _)
take_while_le(s, row) ==
    IF s = <<>> THEN <<>>
    ELSE IF s[1][1] <= row THEN <<s[1]>> \o take_while_le(Tail(s), row)
    ELSE <<>>
prod_inner(taken, item) ==
    SumSeq([p \in 1..Len(taken) |->
              IF taken[p][1] = item[1] THEN taken[p][2] * item[2] ELSE 0])
prod_sum(cols_vals_i, items) ==
    SumSeq([k \in 1..Len(items) |->
              prod_inner(take_while_le(cols_vals_i, items[k][1]), items[k])])
prod_store(ret, i, j, sum) == IF sum # 0 THEN set(ret, i, j, sum) ELSE ret
RECURSIVE prod_cols(_, _, _, _, _)
prod_cell(cols_vals_i, rhs, i, j, ret, col) ==
    IF col.panic # "none" THEN [ret EXCEPT !.panic = col.panic]
    ELSE prod_cols(cols_vals_i, rhs, i, j + 1,
                   prod_store(ret, i, j, prod_sum(cols_vals_i, col.items)))
prod_cols(cols_vals_i, rhs, i, j, ret) ==
    IF ret.panic # "none" \/ j >= n_cols(rhs) THEN ret
    ELSE prod_cell(cols_vals_i, rhs, i, j, ret, CRS_iter_col(rhs, j))
RECURSIVE prod_rows(_, _, _, _)
prod_rows(self, rhs, i, ret) ==
    IF ret.panic # "none" \/ i >= n_rows(self) THEN ret
    ELSE IF ~iter_row_ok(self, i) THEN [ret EXCEPT !.panic = "invalid_row"]
    ELSE prod_rows(self, rhs, i + 1,
                   prod_cols(sort_by_col(iter_row(self, i), <<>>),
                             rhs, i, 0, ret))
prod(self, rhs) ==
    IF n_rows(self) # n_cols(rhs) \/ n_cols(self) # n_rows(rhs)
    THEN [with_capacity(self.eng, 0) EXCEPT !.panic = "dimension_mismatch"]
    ELSE prod_rows(self, rhs, 0,
                   with_capacity(self.eng, n_non_zero_entries(self)))

\* the left operand: the matrix, its transpose, or an identity
ProdLhs == {<<"clone", 0>>, <<"transpose", 0>>}
              \cup {<<"eye", n>> : n \in 1..(MaxRow + 1)}
Lhs(which, eng) ==
    CASE which[1] = "clone" -> M(eng)
      [] which[1] = "transpose" -> transpose(M(eng))
      [] which[1] = "eye" -> eye(eng, which[2])
\* the right operand: the compressed-row matrix after assemble_column_info,
\* or the conversion of the linked one
ProdRhs == {"crs", "to_crs"}
Rhs(which) ==
    CASE which = "crs" -> CRS_assemble_column_info(crs)
      [] which = "to_crs" -> CRS_from_sparsemat_index(il)

Prod(lhs, rhs) ==
    /\ res = NoRes
    /\ res' = [kind |-> "prod", lhs |-> lhs, rhs |-> rhs,
               a |-> [ea \in Engines |-> Lhs(lhs, ea)],
               b |-> Rhs(rhs),
               out |-> [ea \in Engines |-> prod(Lhs(lhs, ea), Rhs(rhs))]]
    /\ UNCHANGED <<il, crs, rv, par, written, nOps, last>>

\* ------------------------------- writes, then a query on the matrices
NextOps ==
    \/ \E i \in Rows, j \in Cols, v \in Vals : Set(i, j, v)
    \/ \E i \in Rows, j \in Cols, v \in Vals : AddTo(i, j, v)
    \/ \E i \in Rows, j \in Cols : GetMut(i, j)
    \/ \E build \in Builds : IsSymmetric(build)
    \/ \E lhs \in ProdLhs, rhs \in ProdRhs : Prod(lhs, rhs)
    \/ AssembleColumnInfo
    \/ \E c \in 0..(MaxCol + 1) : IterCol(c)

SpecOps == Init /\ [][NextOps]_vars

\* ------------------------------------------------- ConjugateGradient
\* iter_max of ConjugateGradient::default(); its tol is 1e-12
IterMax == 10000
\* the dimension of the identity matrix the solver is given
CgDim == 1

\* f64 values: the whole numbers and NaN. The quotients of a run on an
\* identity matrix are whole or 0/0; a quotient outside these is no value
\* of the model.
NaN == [nan |-> TRUE, v |-> 0]
Fin(v) == [nan |-> FALSE, v |-> v]
F_add(a, b) == IF a.nan \/ b.nan THEN NaN ELSE Fin(a.v + b.v)
F_sub(a, b) == IF a.nan \/ b.nan THEN NaN ELSE Fin(a.v - b.v)
F_mul(a, b) == IF a.nan \/ b.nan THEN NaN ELSE Fin(a.v * b.v)
F_div(a, b) ==
    CASE a.nan \/ b.nan -> NaN
      [] ~a.nan /\ ~b.nan /\ b.v = 0 /\ a.v = 0 -> NaN
      [] ~a.nan /\ ~b.nan /\ b.v > 0 /\ a.v % b.v = 0 -> Fin(a.v \div b.v)
RECURSIVE F_sum(_)
F_sum(s) == IF s = <<>> THEN Fin(0) ELSE F_add(s[1], F_sum(Tail(s)))
\* f64::sqrt(a) < tol, for a whole or NaN and tol = 1e-12
F_sqrt_below_tol(a) == ~a.nan /\ a.v = 0

\* DenseVec<f64>
FV_from_vec(v) == [k \in 1..Len(v) |-> Fin(v[k])]
FV_set(v, i, val) ==
    SetAt(IF i >= Len(v) THEN Resize(v, i + 1, Fin(0)) ELSE v, i, val)
FV_add(a, b) ==
    [k \in 1..Len(a) |-> IF k <= Len(b) THEN F_add(a[k], b[k]) ELSE a[k]]
FV_sub(a, b) ==
    [k \in 1..Len(a) |-> IF k <= Len(b) THEN F_sub(a[k], b[k]) ELSE a[k]]
FV_scale(a, rhs) == [k \in 1..Len(a) |-> F_mul(a[k], rhs)]
FV_inner_prod(a, b) ==
    F_sum([k \in 1..Min2(Len(a), Len(b)) |-> F_mul(a[k], b[k])])
FV_norm_squared(a) == F_sum([k \in 1..Len(a) |-> F_mul(a[k], a[k])])

\* mvp on a DenseVec<f64>: [vec, panic]. Row i gives entry i of the result;
\* the first row that cannot be read, or that reads rhs beyond its end,
\* ends the call.
FV_mvp_sum(rhs, row) ==
    F_sum([k \in 1..Len(row) |->
             F_mul(At(rhs, as_usize(row[k][1])), Fin(row[k][2]))])
FV_mvp_bad(m, rhs) ==
    {i \in 0..(n_rows(m) - 1) :
        ~iter_row_ok(m, i) \/ ~mvp_row_ok(rhs, iter_row(m, i))}
FV_mvp_panic(m, i) ==
    IF ~iter_row_ok(m, i) THEN "invalid_row" ELSE "index_out_of_bounds"
FV_mvp_rows(m, rhs, bad) ==
    IF bad # {}
    THEN [vec |-> <<>>,
          panic |-> FV_mvp_panic(m, CHOOSE i \in bad : \A h \in bad : i <= h)]
    ELSE [vec |-> [i \in 1..n_rows(m) |->
                     FV_mvp_sum(rhs, iter_row(m, i - 1))],
          panic |-> "none"]
FV_mvp(m, rhs) == FV_mvp_rows(m, rhs, FV_mvp_bad(m, rhs))

\* the two checks solve makes first, without the one on x
cg_check_b_only(mat, b, x) ==
    IF n_rows(mat) # n_cols(mat) THEN "not_symmetric"
    ELSE IF n_rows(mat) # DV_dim(b) THEN "size_mismatch"
    ELSE "none"

\* the two checks solve makes first
cg_check(mat, b, x) ==
    IF n_rows(mat) # n_cols(mat) THEN "not_symmetric"
    ELSE IF n_rows(mat) # DV_dim(b) \/ n_rows(mat) # DV_dim(x)
    THEN "size_mismatch"
    ELSE "none"

\* solve, from its call to the head of the loop. k counts the passes
\* completed; nx, nr, np count the updates of x, r and p; below holds the
\* passes whose tolerance test was met.
cg_state(eng, b, x, pc, outcome, r, rr) ==
    [kind |-> "solve", eng |-> eng, b |-> b, x0 |-> x, pc |-> pc,
     outcome |-> outcome, k |-> 0, x |-> FV_from_vec(x), r |-> r, p |-> r,
     mat_p |-> <<>>, alpha |-> Fin(0), rr |-> rr, rr_prev |-> rr,
     nx |-> 0, nr |-> 0, np |-> 0, below |-> {}]
cg_enter(eng, b, x, r) ==
    cg_state(eng, b, x, "loop", "running", r, FV_norm_squared(r))
cg_residual(eng, b, x, mv) ==
    IF mv.panic # "none"
    THEN cg_state(eng, b, x, "done", mv.panic, <<>>, Fin(0))
    ELSE IF Len(b) < Len(mv.vec)
    THEN cg_state(eng, b, x, "done", "dimension_mismatch", <<>>, Fin(0))
    ELSE cg_enter(eng, b, x, FV_sub(FV_from_vec(b), mv.vec))
cg_checked(mat, eng, b, x, check) ==
    IF check # "none" THEN cg_state(eng, b, x, "done", check, <<>>, Fin(0))
    ELSE cg_residual(eng, b, x, FV_mvp(mat, FV_from_vec(x)))
cg_start(mat, eng, b, x) == cg_checked(mat, eng, b, x, cg_check(mat, b, x))

\* the head of the loop and "let mat_p = mat.mvp(&p)"
cg_mat_p(s, mp) ==
    IF mp.panic # "none" THEN [s EXCEPT !.pc = "done", !.outcome = mp.panic]
    ELSE [s EXCEPT !.mat_p = mp.vec, !.pc = "update"]
cg_head(s, mat) ==
    IF s.k >= IterMax THEN [s EXCEPT !.pc = "done", !.outcome = "exhausted"]
    ELSE cg_mat_p(s, FV_mvp(mat, s.p))
\* "let alpha = r_norm_squared / p.inner_prod(&mat_p)", then
\* "*x += p.clone() * alpha; r -= mat_p * alpha"
cg_update_with(s, alpha) ==
    [s EXCEPT !.alpha = alpha,
              !.x = FV_add(@, FV_scale(s.p, alpha)),
              !.r = FV_sub(@, FV_scale(s.mat_p, alpha)),
              !.nx = @ + 1, !.nr = @ + 1, !.rr_prev = s.rr, !.pc = "test"]
cg_update(s) ==
    cg_update_with(s, F_div(s.rr, FV_inner_prod(s.p, s.mat_p)))

\* the new r_norm_squared, the tolerance test, and the update of p
cg_direction(s, rr, beta) ==
    [s EXCEPT !.rr = rr, !.p = FV_add(FV_scale(@, beta), s.r),
              !.np = @ + 1, !.k = @ + 1, !.pc = "loop"]
\* a test that lets one more pass begin before it breaks
cg_test_with_late(s, rr) ==
    IF F_sqrt_below_tol(rr) /\ F_sqrt_below_tol(s.rr_prev)
    THEN [s EXCEPT !.rr = rr, !.pc = "done", !.outcome = "converged",
                   !.below = @ \cup {s.k}]
    ELSE cg_direction(s, rr, F_div(rr, s.rr_prev))

cg_test_with(s, rr) ==
    IF F_sqrt_below_tol(rr)
    THEN [s EXCEPT !.rr = rr, !.pc = "done", !.outcome = "converged",
                   !.below = @ \cup {s.k}]
    ELSE cg_direction(s, rr, F_div(rr, s.rr_prev))
cg_test(s) == cg_test_with(s, FV_norm_squared(s.r))

\* the matrices the solver is given: empty, an identity, or a single entry
\* off the diagonal; solve borrows the matrix, so none is built during it
CgEye(n) == res = NoRes /\ Eye(n)
CgSet(i, j, v) == res = NoRes /\ nOps = 0 /\ i # j /\ Set(i, j, v)
\* the vectors it is given: b all ones, x all zeros or all ones
CgB == {[k \in 1..d |-> 1] : d \in 0..(CgDim + 1)}
CgX == CgB \cup {[k \in 1..d |-> 0] : d \in 0..(CgDim + 1)}

Solve(eng, b, x) ==
    /\ res = NoRes
    /\ M(eng).panic = "none"
    /\ res' = cg_start(M(eng), eng, b, x)
    /\ UNCHANGED <<il, crs, rv, par, written, nOps, last>>

CgHead ==
    /\ res.kind = "solve"
    /\ res.pc = "loop"
    /\ res' = cg_head(res, M(res.eng))
    /\ UNCHANGED <<il, crs, rv, par, written, nOps, last>>

CgUpdate ==
    /\ res.kind = "solve"
    /\ res.pc = "update"
    /\ res' = cg_update(res)
    /\ UNCHANGED <<il, crs, rv, par, written, nOps, last>>

CgTest ==
    /\ res.kind = "solve"
    /\ res.pc = "test"
    /\ res' = cg_test(res)
    /\ UNCHANGED <<il, crs, rv, par, written, nOps, last>>

CgStep == CgHead \/ CgUpdate \/ CgTest

NextCg ==
    \/ CgEye(CgDim)
    \/ \E i \in Rows, j \in Cols, v \in Vals : CgSet(i, j, v)
    \/ \E eng \in Engines, b \in CgB, x \in CgX : Solve(eng, b, x)
    \/ CgHead
    \/ CgUpdate
    \/ CgTest

\* the solver reads rows only: the linked matrix is one without column
\* tracking; solve runs to its end once called
InitCg == Init /\ il = IL_with_capacity(0)
SpecCg == InitCg /\ [][NextCg]_vars /\ WF_vars(CgStep)

\* ------------------------------------------- the linked row index alone
\* res holds the index: l the list, pre the list before the last push, row
\* the row last pushed, rows and slots the rows of the pushes that returned
\* and the slots they returned, n the pushes of this run, out the last read
RilRows == 0..(MaxRow + 1)
NoOut == [op |-> "none"]
ril_new ==
    [kind |-> "ril", l |-> RIL_new, pre |-> RIL_new, row |-> 0,
     rows |-> <<>>, slots |-> <<>>, n |-> 0, panic |-> "none", out |-> NoOut]
ril_pushed(s, row, r) ==
    [s EXCEPT !.pre = s.l, !.l = r.l, !.row = row, !.panic = r.panic,
              !.rows = IF r.panic = "none" THEN Append(@, row) ELSE @,
              !.slots = IF r.panic = "none" THEN Append(@, r.index) ELSE @,
              !.out = NoOut]
ril_push(s, row) == ril_pushed(s, row, RIL_push(s.l, row))
\* the index after k pushes for the rows 0, 1, .., FillRows - 1, 0, 1, ..
\* in turn: slot p belongs to row p % FillRows and links to p + FillRows
RIL_in_turn(k) ==
    [row_start |-> [r \in 1..Min2(k, FillRows) |-> r - 1],
     index_list |->
        [p \in 1..k |-> IF p + FillRows <= k THEN p - 1 + FillRows ELSE UNSET]]
ril_in_turn(k) ==
    [ril_new EXCEPT !.l = RIL_in_turn(k), !.pre = RIL_in_turn(k - 1),
                    !.row = (k - 1) % FillRows,
                    !.rows = [p \in 1..k |-> (p - 1) % FillRows],
                    !.slots = [p \in 1..k |-> p - 1]]

\* an index is new, or holds all but two of the entries its index type allows
InitRil ==
    /\ il = IL_with_capacity(0)
    /\ crs = CRS_with_capacity(0)
    /\ rv = RV_with_capacity(0)
    /\ par = PAR_with_sub_matrices(ParBlocks, ParMaxRows)
    /\ written = {}
    /\ nOps = 0
    /\ last = NoOp
    /\ res \in {ril_new, ril_in_turn(UNSET - 2)}

\* the rows pushed and read: the first ones and the first beyond the table
RilRowsOf(l) == RilRows \cup {RIL_n_rows(l)}

RilPush(row) ==
    /\ res.panic = "none"
    /\ res.n < MaxPush
    /\ res' = [ril_push(res, row) EXCEPT !.n = @ + 1]
    /\ UNCHANGED <<il, crs, rv, par, written, nOps, last>>

\* iter_row(row), run to its end by two calls
RilIterRow(row) ==
    /\ res.out = NoOut
    /\ res' = [res EXCEPT !.out = [op |-> "iter_row", row |-> row,
                                   items |-> RIL_iter_row(res.l, row),
                                   again |-> RIL_iter_row(res.l, row)]]
    /\ UNCHANGED <<il, crs, rv, par, written, nOps, last>>

\* iter(), run to its end, on an index of few entries
RilIter(build) ==
    /\ res.out = NoOut
    /\ RIL_n_entries(res.l) <= MaxPush
    /\ res' = [res EXCEPT !.out = [op |-> "iter", build |-> build,
                                   it |-> RIL_iter(res.l, build)]]
    /\ UNCHANGED <<il, crs, rv, par, written, nOps, last>>

NextRil ==
    \/ \E row \in RilRowsOf(res.l) : RilPush(row)
    \/ \E row \in RilRowsOf(res.l) : RilIterRow(row)
    \/ \E build \in Builds : RilIter(build)

SpecRil == InitRil /\ [][NextRil]_vars

\* ------------------------------- writes, with the matrices as they were
\* last.pre holds each engine's matrix before the write
WrPre == [eng \in Engines |-> M(eng)]
WrOp(op, i, j, v) == [op |-> op, i |-> i, j |-> j, v |-> v, pre |-> WrPre]

WrSet(i, j, v) ==
    /\ nOps < MaxOps
    /\ il' = set(il, i, j, v)
    /\ crs' = set(crs, i, j, v)
    /\ rv' = set(rv, i, j, v)
    /\ par' = set(par, i, j, v)
    /\ written' = written \cup {<<i, j>>}
    /\ nOps' = nOps + 1
    /\ last' = WrOp("set", i, j, v)
    /\ res' = NoRes

WrAddTo(i, j, v) ==
    /\ nOps < MaxOps
    /\ il' = add_to(il, i, j, v)
    /\ crs' = add_to(crs, i, j, v)
    /\ rv' = add_to(rv, i, j, v)
    /\ par' = add_to(par, i, j, v)
    /\ written' = written \cup {<<i, j>>}
    /\ nOps' = nOps + 1
    /\ last' = WrOp("add_to", i, j, v)
    /\ res' = NoRes

WrGetMut(i, j) ==
    /\ nOps < MaxOps
    /\ il' = touch(il, i, j)
    /\ crs' = touch(crs, i, j)
    /\ rv' = touch(rv, i, j)
    /\ par' = touch(par, i, j)
    /\ written' = written \cup {<<i, j>>}
    /\ nOps' = nOps + 1
    /\ last' = WrOp("get_mut", i, j, 0)
    /\ res' = NoRes

NextWr ==
    \/ \E i \in Rows, j \in Cols, v \in Vals : WrSet(i, j, v)
    \/ \E i \in Rows, j \in Cols, v \in Vals : WrAddTo(i, j, v)
    \/ \E i \in Rows, j \in Cols : WrGetMut(i, j)

SpecWr == Init /\ [][NextWr]_vars

\* -------------------- writes at columns beyond the index type's range
\* the columns written: the first one, and the first two that do not fit
WideCols == {0, Pow2(IndexBits), Pow2(IndexBits) + 1}

NextCol ==
    \/ \E i \in Rows, j \in WideCols, v \in Vals : WrSet(i, j, v)
    \/ \E i \in Rows, j \in WideCols, v \in Vals : WrAddTo(i, j, v)
    \/ \E i \in Rows, j \in WideCols : WrGetMut(i, j)

SpecCol == Init /\ [][NextCol]_vars

\* ------------------------- writes to matrices that are nearly full
\* the linked and the compressed-row matrix after the k writes
\* set(p % FillRows, p / FillRows, 1), p = 0, 1, .., k - 1
CapCount(k, r) == (k \div FillRows) + (IF r < k % FillRows THEN 1 ELSE 0)
CapCols(k) == (k + FillRows - 1) \div FillRows
IL_in_turn(k) ==
    [IL_with_capacity(0) EXCEPT
       !.n_cols = CapCols(k),
       !.columns = [p \in 1..k |-> (p - 1) \div FillRows],
       !.values = [p \in 1..k |-> 1],
       !.indexlist = RIL_in_turn(k)]
\* row r holds the columns CapCount(k, r) - 1, .., 1, 0, the last created
\* first; offset_rows[r] is the number of entries in the rows before r
CapOffset(k, r) ==
    IF r >= FillRows THEN k
    ELSE r * (k \div FillRows) + Min2(r, k % FillRows)
CapRowOf(k, p) == CHOOSE r \in 0..(FillRows - 1) :
                     CapOffset(k, r) <= p /\ p < CapOffset(k, r + 1)
CRS_in_turn(k) ==
    [CRS_with_capacity(0) EXCEPT
       !.n_rows = Min2(k, FillRows),
       !.n_cols = CapCols(k),
       !.values = [p \in 1..k |-> 1],
       !.columns =
          [p \in 1..k |->
              CapOffset(k, CapRowOf(k, p - 1) + 1) - 1 - (p - 1)],
       !.offset_rows =
          [r \in 1..(IF k = 0 THEN 0 ELSE Min2(k, FillRows) + 1) |->
              CapOffset(k, r - 1)]]

\* the matrices are new, or hold all but two of the entries a u8 index allows
CapFill == {0, UNSET - 2}
InitCap ==
    /\ \E k \in CapFill : il = IL_in_turn(k) /\ crs = CRS_in_turn(k)
    /\ rv = RV_with_capacity(0)
    /\ par = PAR_with_sub_matrices(ParBlocks, ParMaxRows)
    /\ written = {}
    /\ nOps = 0
    /\ last = NoOp
    /\ res = NoRes

\* the cells written: in the first rows and the first row beyond the
\* table, in column 0 and in a column no row holds
CapRows == Rows \cup {FillRows}
CapColumns == {0, FillRows}
CapPre == [il |-> il, crs |-> crs]

CapSet(i, j, v, build) ==
    /\ nOps < MaxOps + 1
    /\ il' = set(il, i, j, v)
    /\ crs' = IF crs.panic # "none" THEN crs
              ELSE assign(CRS_get_mut_build(crs, i, j, build), v)
    /\ nOps' = nOps + 1
    /\ last' = [op |-> "set", i |-> i, j |-> j, v |-> v, build |-> build,
                pre |-> CapPre]
    /\ UNCHANGED <<rv, par, written, res>>

CapGetMut(i, j, build) ==
    /\ nOps < MaxOps + 1
    /\ il' = touch(il, i, j)
    /\ crs' = IF crs.panic # "none" THEN crs
              ELSE CRS_get_mut_build(crs, i, j, build).m
    /\ nOps' = nOps + 1
    /\ last' = [op |-> "get_mut", i |-> i, j |-> j, v |-> 0, build |-> build,
                pre |-> CapPre]
    /\ UNCHANGED <<rv, par, written, res>>

NextCap ==
    \/ \E i \in CapRows, j \in CapColumns, v \in Vals, build \in Builds :
          CapSet(i, j, v, build)
    \/ \E i \in CapRows, j \in CapColumns, build \in Builds :
          CapGetMut(i, j, build)

SpecCap == InitCap /\ [][NextCap]_vars

\* ------------------------------------------------------- claims, helpers
MaxOf(S) == CHOOSE x \in S : \A y \in S : y <= x
\* the rows and columns a claim reads: those written and one beyond
AllRows == 0..(MaxRow + 1)
AllCols == 0..(MaxCol + 1)
\* the rows of m that iter_row can be asked for
RowsOf(m) == 0..(n_rows(m) - 1)
\* the stored <<i, j, val>> of m, as a set
Triples(m) == {row_loop(m, 0)[k] : k \in 1..Len(row_loop(m, 0))}
\* the <<col, val>> pairs of row i, as a set
RowSet(m, i) == {iter_row(m, i)[k] : k \in 1..Len(iter_row(m, i))}
IsWrite == last.op \in {"set", "add_to", "get_mut"}

\* C1: in each engine, immediately after set(i, j, v), also as the very
\* first write to an empty matrix, get(i, j) returns v.
C1_SetThenGet ==
    last.op = "set" =>
        \A eng \in Engines :
            /\ M(eng).panic = "none"
            /\ get_ok(M(eng), last.i, last.j)
            /\ get(M(eng), last.i, last.j) = last.v

\* C2: in every engine each key (row, col) is exposed by iter_row at most
\* once; a write to a key written before leaves n_non_zero_entries()
\* unchanged, get_mut returning the cell that exists, and get_mut of an
\* absent key adds exactly one entry, whose value is zero.
C2_KeyAtMostOnce ==
    IsWrite =>
        \A eng \in Engines :
            /\ M(eng).panic = "none"
            /\ \A i \in RowsOf(M(eng)) :
                  /\ iter_row_ok(M(eng), i)
                  /\ \A k1, k2 \in 1..Len(iter_row(M(eng), i)) :
                        iter_row(M(eng), i)[k1][1] = iter_row(M(eng), i)[k2][1]
                           => k1 = k2
            /\ last.had =>
                  n_non_zero_entries(M(eng)) = last.pre[eng].nnz
            /\ last.had /\ last.op = "get_mut" =>
                  get(M(eng), last.i, last.j) = last.pre[eng].val
            /\ ~last.had /\ last.op = "get_mut" =>
                  /\ n_non_zero_entries(M(eng)) = last.pre[eng].nnz + 1
                  /\ get(M(eng), last.i, last.j) = 0

\* C3: after any sequence of writes n_non_zero_entries() is the number of
\* distinct keys (row, col) whose current value is not zero.
C3_NnzCountsNonZero ==
    IsWrite =>
        \A eng \in Engines :
            n_non_zero_entries(M(eng)) =
               Cardinality({k \in AllRows \X AllCols :
                               /\ get_ok(M(eng), k[1], k[2])
                               /\ get(M(eng), k[1], k[2]) # 0})

\* C4: in every engine, after a non-empty sequence of writes (already after
\* the first), n_cols() is one plus the largest column written and n_rows()
\* one plus the largest row written.
C4_DimsFollowWrites ==
    IsWrite =>
        \A eng \in Engines :
            /\ n_cols(M(eng)) = 1 + MaxOf({k[2] : k \in written})
            /\ n_rows(M(eng)) = 1 + MaxOf({k[1] : k \in written})

\* C5: for every engine and every n >= 1, eye(n) has get(i, i) = 1 and
\* get(i, j) = 0 for i # j, for all i, j < n, and n_rows() = n_cols() = n.
C5_Eye ==
    last.op = "eye" =>
        \A eng \in Engines :
            /\ M(eng).panic = "none"
            /\ n_rows(M(eng)) = last.n
            /\ n_cols(M(eng)) = last.n
            /\ \A i, j \in 0..(last.n - 1) :
                  /\ get_ok(M(eng), i, j)
                  /\ get(M(eng), i, j) = IF i = j THEN 1 ELSE 0

\* C6: given the same writes, the linked, the compressed-row and the
\* row-of-arrays matrix agree on get(i, j) for all (i, j), on n_rows(),
\* n_cols() and n_non_zero_entries(), and on the set of (col, value) pairs
\* of iter_row(i) for every row i.
C6_EnginesAgree ==
    IsWrite =>
        \A eng \in {"crs", "rv"} :
            /\ n_rows(M(eng)) = n_rows(il)
            /\ n_cols(M(eng)) = n_cols(il)
            /\ n_non_zero_entries(M(eng)) = n_non_zero_entries(il)
            /\ \A i \in AllRows, j \in AllCols :
                  get(M(eng), i, j) = get(il, i, j)
            /\ \A i \in RowsOf(il) :
                  /\ iter_row_ok(M(eng), i)
                  /\ RowSet(M(eng), i) = RowSet(il, i)

C8_Mvp ==
    res.kind = "mvp" =>
        \A eng \in Engines :
            DV_dim(res.v) = n_cols(M(eng)) =>
                /\ res.out[eng].panic = "none"
                /\ DV_dim(res.out[eng].vec) = n_rows(M(eng))
                /\ \A i \in RowsOf(M(eng)) :
                      /\ iter_row_ok(M(eng), i)
                      /\ DV_get(res.out[eng].vec, i) =
                            SumSeq([k \in 1..Len(iter_row(M(eng), i)) |->
                                      iter_row(M(eng), i)[k][2]
                                      * DV_get(res.v,
                                               iter_row(M(eng), i)[k][1])])
                      /\ DV_get(res.out[eng].vec, i) =
                            SumSeq([c \in 1..n_cols(M(eng)) |->
                                      get(M(eng), i, c - 1)
                                      * DV_get(res.v, c - 1)])

\* C9: after A.add(B), respectively A.sub(B), for A and B of any engines and
\* also for an empty A, A.get(i, j) is the previous A.get(i, j) plus,
\* respectively minus, B.get(i, j) for all (i, j); so (M + M) - M agrees
\* with M on every get(i, j).
C9_AddSub ==
    res.kind \in {"add", "sub"} =>
        \A ea \in Engines, eb \in Engines :
            /\ res.out[ea][eb].panic = "none"
            /\ \A i \in AllRows, j \in AllCols :
                  /\ get_ok(res.out[ea][eb], i, j)
                     /\ get_ok(res.a[ea], i, j) /\ get_ok(M(eb), i, j)
                     => get(res.out[ea][eb], i, j) =
                           get(res.a[ea], i, j)
                           + (IF res.kind = "add" THEN 1 ELSE -1)
                             * get(M(eb), i, j)
                  /\ res.kind = "sub" /\ res.which = "sum" /\ ea = eb
                     /\ get_ok(M(ea), i, j)
                     => get(res.out[ea][eb], i, j) = get(M(ea), i, j)

\* C10: for a matrix M built by writes, in every engine,
\* transpose(M).get(j, i) = M.get(i, j) for all i, j, and
\* transpose(transpose(M)) has M's set of stored (i, j, v) and M's n_rows
\* and n_cols.
C10_Transpose ==
    res.kind = "transpose" =>
        \A eng \in Engines :
            /\ res.t[eng].panic = "none"
            /\ res.tt[eng].panic = "none"
            /\ \A i \in RowsOf(M(eng)), j \in AllCols :
                  get(res.t[eng], j, i) = get(M(eng), i, j)
            /\ Triples(res.tt[eng]) = Triples(M(eng))
            /\ n_rows(res.tt[eng]) = n_rows(M(eng))
            /\ n_cols(res.tt[eng]) = n_cols(M(eng))

\* C11: is_symmetric() returns true exactly if every stored entry (i, j, v)
\* has get(j, i) = v, and returns a boolean for every matrix, true for a
\* matrix without stored entries.
C11_IsSymmetric ==
    res.kind = "is_symmetric" =>
        \A eng \in IterEngines :
            /\ res.out[eng] \in {"true", "false"}
            /\ res.out[eng] = "true" <=>
                  \A t \in Triples(M(eng)) :
                      get(M(eng), t[2], t[1]) = t[3]

\* C12: sort_row(i) on a row of the matrix leaves row i in ascending column
\* order (is_sorted_row(i) holds), keeps the multiset of (col, value) pairs
\* of row i, leaves every other row, every get(i, j), n_rows, n_cols and
\* n_non_zero_entries as they were, and is idempotent: sorting again, or
\* sorting a row that was sorted, changes nothing by value or position.
C12_SortRow ==
    last.op = "sort_row" /\ last.i < n_rows(last.pre) =>
        /\ crs.panic = "none"
        /\ is_sorted_row(crs, last.i)
        /\ \A c \in AllCols, v \in 0..(2 * MaxVal) :
              Cardinality({k \in 1..Len(iter_row(crs, last.i)) :
                              iter_row(crs, last.i)[k] = <<c, v>>})
              = Cardinality({k \in 1..Len(iter_row(last.pre, last.i)) :
                                iter_row(last.pre, last.i)[k] = <<c, v>>})
        /\ Len(iter_row(crs, last.i)) = Len(iter_row(last.pre, last.i))
        /\ \A r \in AllRows \ {last.i} :
              iter_row(crs, r) = iter_row(last.pre, r)
        /\ \A r \in AllRows, c \in AllCols :
              get(crs, r, c) = get(last.pre, r, c)
        /\ n_rows(crs) = n_rows(last.pre)
        /\ n_cols(crs) = n_cols(last.pre)
        /\ n_non_zero_entries(crs) = n_non_zero_entries(last.pre)
        /\ CRS_sort_row(crs, last.i) = crs
        /\ is_sorted_row(last.pre, last.i) => crs = last.pre

\* a sort that moved entries of a row below which another row lies
C12_Witness ==
    /\ last.op = "sort_row"
    /\ last.i < n_rows(last.pre)
    /\ crs # last.pre
    /\ crs.panic = "none"

\* C13: A.prod(B) fails with the dimension mismatch exactly if
\* n_cols(A) differs from n_rows(B); shape-compatible operands whose product
\* is not square are multiplied.
C13_ProdDimension ==
    res.kind = "prod" =>
        \A ea \in Engines :
            res.a[ea].panic = "none" /\ res.b.panic = "none" =>
                (res.out[ea].panic = "dimension_mismatch"
                    <=> n_cols(res.a[ea]) # n_rows(res.b))

\* sum over k of A.get(i, k) * B.get(k, j)
DotAt(a, b, i, j) ==
    SumSeq([k \in 1..n_cols(a) |-> get(a, i, k - 1) * get(b, k - 1, j)])

\* C14: a prod that passes the dimension check returns C with
\* C.get(i, j) = sum over k of A.get(i, k) * B.get(k, j) for all i < n_rows(A)
\* and j < n_cols(B), whatever the storage order, and C stores an entry at
\* (i, j) only where that sum is non-zero.
C14_ProdValues ==
    res.kind = "prod" =>
        \A ea \in Engines :
            /\ res.a[ea].panic = "none" /\ res.b.panic = "none"
            /\ n_rows(res.a[ea]) = n_cols(res.b)
            /\ n_cols(res.a[ea]) = n_rows(res.b)
            => /\ res.out[ea].panic = "none"
               /\ \A i \in 0..(n_rows(res.a[ea]) - 1),
                     j \in 0..(n_cols(res.b) - 1) :
                     get(res.out[ea], i, j) = DotAt(res.a[ea], res.b, i, j)
               /\ \A t \in Triples(res.out[ea]) :
                     DotAt(res.a[ea], res.b, t[1], t[2]) # 0

\* the stored <<row, val>> of column j, in row-major order
ColumnOf(m, j) ==
    SelectSeq(row_loop(m, 0), LAMBDA t : t[2] = j)

\* C15: after assemble_column_info() on a matrix with stored entries,
\* has_iter_col() is true and iter_col(j) yields the stored entries of
\* column j as (row, value) pairs, each once, value equal to get(row, j),
\* and then ends.
C15_AssembleColumnInfo ==
    res.kind = "assemble_column_info" /\ crs.panic = "none"
        /\ n_non_zero_entries(crs) > 0 =>
        /\ res.has
        /\ \A j \in 0..(n_cols(crs) - 1) :
              /\ res.cols[j].panic = "none"
              /\ Len(res.cols[j].items) = Len(ColumnOf(crs, j))
              /\ \A t \in Triples(crs) : t[2] = j =>
                    \E k \in 1..Len(res.cols[j].items) :
                        res.cols[j].items[k] = <<t[1], t[3]>>
              /\ \A k \in 1..Len(res.cols[j].items) :
                    res.cols[j].items[k][2]
                        = get(crs, as_usize(res.cols[j].items[k][1]), j)

\* C16: iter_col(c) on a matrix whose column info was not assembled, a
\* matrix without entries included, fails with the "column iterator not
\* available" condition: it returns no sequence and fails in no other way.
C16_IterColNotAvailable ==
    res.kind = "iter_col" /\ crs.panic = "none" /\ ~CRS_has_iter_col(crs) =>
        res.out.panic = "column_iterator_not_available"

\* C17: solve fails with the "not symmetric" condition when the matrix has
\* n_rows() # n_cols(), and (the matrix being square) with the size
\* mismatch when n_rows() differs from b.dim() or from x.dim(); either
\* failure comes before the first iteration and leaves x as it was.
C17_SolveChecks ==
    res.kind = "solve" =>
        /\ n_rows(M(res.eng)) # n_cols(M(res.eng)) =>
              res.outcome = "not_symmetric"
        /\ /\ n_rows(M(res.eng)) = n_cols(M(res.eng))
           /\ \/ n_rows(M(res.eng)) # DV_dim(res.b)
              \/ n_rows(M(res.eng)) # DV_dim(res.x0)
           => res.outcome = "size_mismatch"
        /\ res.outcome \in {"not_symmetric", "size_mismatch"} =>
              /\ res.pc = "done"
              /\ res.k = 0 /\ res.nx = 0 /\ res.nr = 0 /\ res.np = 0
              /\ res.x = FV_from_vec(res.x0)

\* a size mismatch raised for x alone, x holding values
C17_Witness ==
    /\ res.kind = "solve"
    /\ res.outcome = "size_mismatch"
    /\ n_rows(M(res.eng)) = DV_dim(res.b)
    /\ n_rows(M(res.eng)) > 0
    /\ \E k \in 1..Len(res.x0) : res.x0[k] # 0

\* the loop of a solve that passed both checks, at each of its positions
CgLoopInv ==
    res.kind = "solve" /\ cg_check(M(res.eng), res.b, res.x0) = "none" =>
        /\ res.k <= IterMax
        /\ Len(res.x) = n_rows(M(res.eng))
        /\ Len(res.r) = n_rows(M(res.eng))
        /\ Len(res.p) = n_rows(M(res.eng))
        /\ res.pc = "done" <=> res.outcome \in {"converged", "exhausted"}
        /\ res.pc # "done" <=> res.outcome = "running"
        /\ res.pc = "loop" =>
              /\ res.nx = res.k /\ res.nr = res.k /\ res.np = res.k
              /\ res.below = {}
              /\ res.k > 0 => ~F_sqrt_below_tol(res.rr)
        /\ res.pc = "update" =>
              /\ res.k < IterMax
              /\ res.nx = res.k /\ res.nr = res.k /\ res.np = res.k
              /\ res.below = {}
        /\ res.pc = "test" =>
              /\ res.k < IterMax
              /\ res.nx = res.k + 1 /\ res.nr = res.k + 1 /\ res.np = res.k
              /\ res.below = {}
        /\ res.outcome = "converged" =>
              /\ F_sqrt_below_tol(res.rr)
              /\ res.k < IterMax
              /\ res.below = {res.k}
              /\ res.nx = res.k + 1 /\ res.nr = res.k + 1 /\ res.np = res.k
        /\ res.outcome = "exhausted" =>
              /\ res.k = IterMax
              /\ res.below = {}
              /\ res.nx = IterMax /\ res.nr = IterMax /\ res.np = IterMax

\* C18: solve always terminates: it runs at most iter_max (10,000) passes of
\* the loop and stops at the end of the first pass in which sqrt(r.r) < tol;
\* it ends converged or exhausted and in no other way; within a pass x and r
\* are updated before the tolerance test and p after it.
C18_SolveTerminates ==
    /\ []CgLoopInv
    /\ (res.kind = "solve") ~> (res.kind = "solve" /\ res.pc = "done")

\* the iteration cap reached with the tolerance never met
C18_Witness ==
    /\ res.kind = "solve"
    /\ res.outcome = "exhausted"
    /\ res.k = IterMax

\* C19: for a block-partitioned matrix built by with_sub_matrices(n_blocks,
\* max_n_rows) or with_capacity(cap), with c = max_n_rows / n_blocks: for
\* every row r read or written, c is not zero, r / c is the index of one of
\* the n_blocks sub-matrices, and get, get_mut and iter_row on r are those
\* of sub-matrix r / c at its row r % c.
C19_ParBlockAndRow ==
    \A r \in {key[1] : key \in written} :
        /\ par.n_rows_sub_matrix # 0
        /\ r \div par.n_rows_sub_matrix < par.n_blocks
        /\ PAR_get_block_and_row_id(par, r) =
              [block_id |-> r \div par.n_rows_sub_matrix,
               row_id |-> r % par.n_rows_sub_matrix, panic |-> "none"]
        /\ par.panic = "none"
        /\ iter_row(par, r) =
              IL_iter_row(At(par.sub_matrices, r \div par.n_rows_sub_matrix),
                          r % par.n_rows_sub_matrix)
        /\ \A j \in Cols :
              get(par, r, j) =
                 IL_get(At(par.sub_matrices, r \div par.n_rows_sub_matrix),
                        r % par.n_rows_sub_matrix, j)

\* the sub-matrices that hold entries, and the sum of the entry counts of
\* the first b sub-matrices
ParNonEmpty == {b \in 0..(par.n_blocks - 1) : ~M_empty(At(par.sub_matrices, b))}
ParLastNonEmpty == CHOOSE b \in ParNonEmpty : \A o \in ParNonEmpty : o <= b
RECURSIVE ParEntriesBelow(_)
ParEntriesBelow(b) ==
    IF b = 0 THEN 0
    ELSE ParEntriesBelow(b - 1)
         + IL_n_non_zero_entries(At(par.sub_matrices, b - 1))
ParDimsOfBlocks ==
    /\ \A b \in 0..(par.n_blocks - 1) :
          IL_n_cols(At(par.sub_matrices, b)) <= n_cols(par)
    /\ \/ n_cols(par) = 0
       \/ \E b \in 0..(par.n_blocks - 1) :
             IL_n_cols(At(par.sub_matrices, b)) = n_cols(par)
    /\ n_non_zero_entries(par) = ParEntriesBelow(par.n_blocks)

\* C20: for a block-partitioned matrix and any pattern of written rows, one
\* with an empty sub-matrix before one that holds entries included,
\* n_rows() is the capacity times the index of the last non-empty
\* sub-matrix plus that sub-matrix's row count; n_cols() is the maximum and
\* n_non_zero_entries() the sum over the sub-matrices.
C20_ParDims ==
    par.panic = "none" /\ ParNonEmpty # {} =>
        /\ n_rows(par) =
              par.n_rows_sub_matrix * ParLastNonEmpty
              + IL_n_rows(At(par.sub_matrices, ParLastNonEmpty))
        /\ ParDimsOfBlocks

\* the slots returned by the pushes made for row r, in the order of the calls
RilPushes == [k \in 1..Len(res.rows) |-> <<res.rows[k], res.slots[k]>>]
RilPushesFor(r) == SelectSeq(RilPushes, LAMBDA rs : rs[1] = r)
RilSlotsFor(r) == [k \in 1..Len(RilPushesFor(r)) |-> RilPushesFor(r)[k][2]]

\* C21: on a linked row index built by pushes, the k-th push returns slot
\* k - 1; iter_row(r) yields the slots returned by the pushes for row r, in
\* the order of the pushes, and so does a second call; a row of the table
\* that was never pushed yields nothing.
C21_PushAndIterRow ==
    res.kind = "ril" =>
        /\ \A k \in 1..Len(res.slots) : res.slots[k] = k - 1
        /\ \A r \in 0..(RIL_n_rows(res.l) - 1) :
              RIL_iter_row(res.l, r) = RilSlotsFor(r)
        /\ res.out.op = "iter_row" /\ res.out.row < RIL_n_rows(res.l) =>
              /\ res.out.items = RilSlotsFor(res.out.row)
              /\ res.out.again = res.out.items

\* a row read back whose pushes were made around a push for another row
C21_Witness ==
    /\ res.kind = "ril"
    /\ res.out.op = "iter_row"
    /\ Len(res.out.items) >= 2
    /\ res.out.items[2] > res.out.items[1] + 1
    /\ \E r \in 0..(RIL_n_rows(res.l) - 1) :
          r # res.out.row /\ RIL_iter_row(res.l, r) = <<>>

\* the <<row, slot>> of iter_row(r), for the rows of the table in order
RilRowItems(l, r) ==
    [k \in 1..Len(RIL_iter_row(l, r)) |-> <<r, RIL_iter_row(l, r)[k]>>]
RilAllItems(l) == ConcatAll([r \in 1..RIL_n_rows(l) |-> RilRowItems(l, r - 1)])

\* C22: iter() of the linked row index yields, for the rows 0..n_rows() in
\* order, <<row, slot>> for each slot of iter_row(row): empty rows at the
\* head, in the middle and at the end are skipped, and an index with no row
\* yields nothing and does not fail.
C22_IterAll ==
    res.kind = "ril" /\ res.out.op = "iter" =>
        res.out.it = [items |-> RilAllItems(res.l), panic |-> "none"]

\* iter_row(r) of matrix m returns, and yields nothing
IterRowEmpty(m, r) == iter_row_ok(m, r) /\ iter_row(m, r) = <<>>

\* C23: in every engine and in the linked row index, iter_row(r) for a row
\* r >= n_rows() yields the empty sequence and does not fail.
C23_IterRowOutOfRange ==
    /\ \A eng \in Engines :
          M(eng).panic = "none" =>
             \A r \in n_rows(M(eng))..(MaxRow + 2) : IterRowEmpty(M(eng), r)
    /\ \A r \in RIL_n_rows(il.indexlist)..(MaxRow + 2) :
          RIL_iter_row(il.indexlist, r) = <<>>

\* a write that created its cell in engine eng, and the entry it created
WrIsWrite == last.op \in {"set", "add_to", "get_mut"}
WrCreated(eng) ==
    /\ WrIsWrite
    /\ M(eng).panic = "none"
    /\ n_non_zero_entries(M(eng)) = n_non_zero_entries(last.pre[eng]) + 1
WrNew == <<as_indextype(last.j), last.v>>
WrRowBefore(eng) == iter_row(last.pre[eng], last.i)
WrRowAfter(eng) == iter_row(M(eng), last.i)

CapIndexBelow ==
    /\ RIL_n_entries(il.indexlist) <= UNSET
    /\ il.panic \in {"none", "capacity"}
    /\ il.panic = "capacity" =>
          RIL_n_entries(last.pre.il.indexlist) = UNSET
    /\ last.op # "none" /\ last.pre.il.panic = "none"
       /\ RIL_n_entries(last.pre.il.indexlist) < UNSET => il.panic = "none"
\* the offsets of the compressed-row matrix: below the sentinel, none lower
\* than it was before the write (none has wrapped), and a push fails with
\* the capacity condition or not at all
CapOffsetsBelow ==
    /\ \A k \in 1..Len(crs.offset_rows) : crs.offset_rows[k] < UNSET
    /\ last.op # "none" =>
          \A k \in 1..Min2(Len(crs.offset_rows), Len(last.pre.crs.offset_rows)) :
             crs.offset_rows[k] >= last.pre.crs.offset_rows[k]
    /\ crs.panic \in {"none", "capacity"}

\* C25: in the linked row index and in the compressed-row engine, with an
\* index type of width w and the sentinel UNSET = 2^w - 1, every slot
\* position and every row offset stored is below UNSET, no offset wraps
\* modulo 2^w, and an insertion that would produce UNSET fails with the
\* capacity condition; an insertion fails for no other reason.
C25_BelowSentinel == CapIndexBelow /\ CapOffsetsBelow

\* a write that failed with the capacity condition, and the matrix it failed
\* on with the panic taken away
CapFailed(m, pre) == m.panic = "capacity" /\ pre.panic = "none"
CapIgnoringPanic(m) == [m EXCEPT !.panic = "none"]

\* C26: a write (a push on the linked index, set, add_to or get_mut on an
\* engine) that fails with capacity exhaustion leaves the structure as it
\* was before the call: row table, n_rows(), n_cols(), entry count, offsets
\* and chains.
C26_FailureLeavesState ==
    /\ CapFailed(il, last.pre.il) =>
          /\ il.indexlist = last.pre.il.indexlist
          /\ CapIgnoringPanic(il) = last.pre.il
    /\ CapFailed(crs, last.pre.crs) => CapIgnoringPanic(crs) = last.pre.crs

\* the stored positions of row r of a compressed-row matrix
CrsRange(m, r) == At(m.offset_rows, r) .. (At(m.offset_rows, r + 1) - 1)

\* the shape of a compressed-row matrix's offsets
CrsOffsetsShape(m) ==
    /\ Len(m.offset_rows) = CRS_n_rows(m) + 1
    /\ At(m.offset_rows, 0) = 0
    /\ \A r \in 0..(CRS_n_rows(m) - 1) :
          At(m.offset_rows, r) <= At(m.offset_rows, r + 1)
    /\ At(m.offset_rows, Len(m.offset_rows) - 1) = Len(m.columns)
    /\ Len(m.values) = Len(m.columns)

\* every stored position lies in the range of exactly one row
CrsOneRangeEach(m) ==
    \A p \in 0..(Len(m.columns) - 1) :
        Cardinality({r \in 0..(Len(m.offset_rows) - 2) :
                        p \in CrsRange(m, r)}) = 1

\* C27: after any sequence of writes on a compressed-row matrix, and after
\* the conversion from the incremental format, the row offsets have length
\* n_rows() + 1, start at 0, never decrease, end at the number of stored
\* entries, every stored position lies in exactly one row range, and values
\* and columns are of equal length.
C27_OffsetsShape ==
    /\ (nOps > 0 /\ crs.panic = "none") =>
          CrsOffsetsShape(crs) /\ CrsOneRangeEach(crs)
    /\ (res.kind = "to_crs" /\ res.crs.panic = "none") =>
          CrsOffsetsShape(res.crs) /\ CrsOneRangeEach(res.crs)

\* the keys <<row, col>> that iter_row yields over the rows of m
WrRowKeys(m, r) ==
    IF iter_row_ok(m, r) THEN {<<r, p[1]>> : p \in RowSet(m, r)} ELSE {}
WrIterKeys(m) == UNION {WrRowKeys(m, r) : r \in RowsOf(m)}
WrOtherKeys == (AllRows \X AllCols) \ {<<last.i, last.j>>}

\* the write left the cells of the other keys as they were
WrFrame(eng) ==
    \A k \in WrOtherKeys :
        get_ok(last.pre[eng], k[1], k[2]) =>
            /\ get_ok(M(eng), k[1], k[2])
            /\ get(M(eng), k[1], k[2]) = get(last.pre[eng], k[1], k[2])

\* the write left every entry that iteration yielded in the iteration
WrKeeps(eng) == WrIterKeys(last.pre[eng]) \subseteq WrIterKeys(M(eng))

WrDone(eng) ==
    WrIsWrite /\ last.pre[eng].panic = "none" /\ M(eng).panic = "none"

\* C28: in every engine a write at (i, j) through set, add_to or get_mut
\* leaves get(i', j') unchanged for every other key and removes no stored
\* entry from iteration, in whatever order the rows are written.
C28_WriteFrame ==
    \A eng \in Engines : WrDone(eng) => WrFrame(eng) /\ WrKeeps(eng)

\* the values of a table that are not the sentinel are slots of the index
RilBelow(l, table) ==
    \A k \in 1..Len(table) : table[k] # UNSET => table[k] < RIL_n_entries(l)

\* the chains of all rows, one after the other
RilChains(l) ==
    ConcatAll([r \in 1..RIL_n_rows(l) |-> RIL_iter_row(l, r - 1)])
RilSlotsOf(chains) == {chains[k] : k \in 1..Len(chains)}

\* every slot lies on one chain, once
RilPartitionOf(l, chains) ==
    /\ Len(chains) = RIL_n_entries(l)
    /\ RilSlotsOf(chains) = 0..(RIL_n_entries(l) - 1)
RilPartition(l) == RilPartitionOf(l, RilChains(l))

\* a push has acted: res.pre is the index before it, res.row its row
RilPushed == res.kind = "ril" /\ (res.n > 0 \/ res.l # res.pre)
RilGrown ==
    /\ RIL_n_rows(res.l) = Max2(RIL_n_rows(res.pre), res.row + 1)
    /\ \A r \in RIL_n_rows(res.pre)..(RIL_n_rows(res.l) - 1) :
          (r # res.row \/ res.panic # "none") =>
              At(res.l.row_start, r) = UNSET
    /\ \A r \in 0..(RIL_n_rows(res.l) - 1) :
          r # res.row => RIL_iter_row(res.l, r) = RIL_iter_row(res.pre, r)

\* C29: after any sequence of pushes on the linked row index every value
\* of row_start and of the next-slot array that is not the sentinel is below
\* n_entries(); every slot 0..n_entries()-1 is reached from exactly one row
\* head, the chains being disjoint, acyclic and ended by the sentinel; the
\* chain lengths sum to n_entries(); push(row) grows the row table to
\* row + 1 with the new rows at the sentinel and leaves the chain of every
\* other row as it was.
C29_ChainsPartition ==
    res.kind = "ril" =>
        /\ RilBelow(res.l, res.l.row_start)
        /\ RilBelow(res.l, res.l.index_list)
        /\ RilPartition(res.l)
        /\ RilPushed => RilGrown

\* a push that appended to a chain and grew the row table by several rows
C29_Witness ==
    /\ RilPushed
    /\ res.panic = "none"
    /\ RIL_n_rows(res.l) >= RIL_n_rows(res.pre) + 2
    /\ \E r \in 0..(RIL_n_rows(res.l) - 1) : Len(RIL_iter_row(res.l, r)) >= 2

\* the write was not rejected
ColAccepted(eng) == WrIsWrite /\ M(eng).panic = "none"
\* a cell that reads as set has been written
ColOwn(eng) ==
    \A i \in AllRows, j \in AllCols \cup WideCols :
        (get_ok(M(eng), i, j) /\ get(M(eng), i, j) # 0) => <<i, j>> \in written

\* C30: for every write at column j the stored column index converts back
\* to j, so that two columns of a row never share a stored entry and
\* get(i, j) never returns a value written at another column; a column
\* that does not fit the index type is rejected, not truncated.
C30_ColumnRoundTrip ==
    \A eng \in Engines :
        /\ ColAccepted(eng) => as_usize(as_indextype(last.j)) = last.j
        /\ ColOwn(eng)

====
